---------------------------- MODULE Spec2Model ----------------------------
(***************************************************************************)
(* Model of the application gateway (rdkcentral/entservices-appgateway).   *)
(*                                                                         *)
(* Strings are sequences of one-character strings, so that find, substr    *)
(* and tolower are computed character by character as the C++ code does.   *)
(*                                                                         *)
(* The module holds several specifications over one set of variables:      *)
(*   SpecQuery     Utils::ResolveQuery applied to bounded query strings    *)
(*   SpecResolver  the resolution table (LoadConfig / ResolveAlias)        *)
(*   Spec          the responder: weak self reference, handler triple,     *)
(*                 connection events, work items, shutdown                 *)
(* Each specification moves its own variables and leaves the others at     *)
(* their initial values.                                                   *)
(***************************************************************************)
EXTENDS Integers, Sequences, FiniteSets, Bags, TLC

VARIABLES
    query,          \* SpecQuery: the query string handed to ResolveQuery
    resolved,       \* SpecQuery: what ResolveQuery returned for it
    mResolutions,   \* SpecResolver: lowercased method name -> entry
    mConfigured,    \* SpecResolver: IsConfigured()
    loadLog,        \* SpecResolver: the (key, entry) pairs loaded so far, in order
    lastLookup,     \* SpecResolver: the last lookup and its answer
    loadReturns,    \* SpecResolver: what each LoadConfig call returned, in call order
    phase,          \* Spec: where the responder object is in its life
    weakHolder,     \* Spec: mWeakSelfHolder
    useCount,       \* Spec: strong count of the control block made by CreateWeakSelf
    handlers,       \* Spec: the handler triple installed in mWsManager
    capturedWeak,   \* Spec: the weak_ptr copy the real handlers captured
    conn,           \* Spec: per connection id, the manager's view of it
    mAppIdRegistry, \* Spec: connectionId -> appId
    mCompliant,     \* Spec: the JSON-RPC-compliance set
    subscriptions,  \* Spec: connection ids with subscriptions in AppNotifications
    mAuthenticator, \* Spec: authenticator interface acquired or not
    mResolver,      \* Spec: resolver interface acquired or not
    jobs,           \* Spec: work items submitted to the worker pool, not yet run
    effects,        \* Spec: what the responder did to its collaborators
    lastEvent,      \* Spec: what the most recent step of the responder was and did
    configuring,    \* Spec: where the thread inside Configure is, and its weakSelf local
    calling,        \* Spec: the Respond, Emit or Request call each thread is in
    lastResolve,    \* SpecRouter: the last Resolve call, what it did and returned
    telemetry,      \* SpecTelemetry: the fields of the AppGatewayTelemetry singleton
    lifecycle,      \* SpecTelemetry: never initialized, initialized, or deinitialized
    apiSamples,     \* SpecTelemetry: API-method samples recorded since the last flush
    telEvent,       \* SpecTelemetry: what the most recent telemetry call was and did
    decrementing,   \* SpecGauge: per thread, where it is in DecrementWebSocketConnections
    admitted,       \* SpecRace: per thread, the RecordTelemetry* call it is inside
    expiring,       \* SpecShutdown: where the timer thread is in OnTimerExpired
    formatted,      \* SpecFormat: mTelemetryFormat and the last FormatTelemetryPayload call
    delegate,       \* SpecLifecycle: the registries of the LifecycleDelegate
    delegateCall,   \* SpecLifecycle: the last call into the delegate and what it did
    notifying,      \* SpecLifecycle: per producer, where its thread is in a notification
    userSettings,   \* SpecSubscriptions: the UserSettingsDelegate
    textTrack,      \* SpecSubscriptions: the TextTrackDelegate
    subscribing,    \* SpecSubscribers: per thread, where it is in HandleSubscription
    subscribeCall,  \* SpecSubscriptions: the last HandleEvent call and what it did
    flushing,       \* SpecHealth: the thread that holds mAdminLock inside a flush
    ledger,         \* SpecHealth: increments performed and increments reported
    launched,       \* SpecLifecycle: the instances reported Initializing so far
    voiceGuidance,  \* SpecSpeed: the producer's voice-guidance rate and the last call
    speeding        \* SpecSpeed: per thread, where it is in SetSpeed or GetSpeed

queryVars == <<query, resolved>>
resolverVars == <<mResolutions, mConfigured, loadLog, lastLookup, loadReturns>>
respVars == <<phase, weakHolder, useCount, handlers, capturedWeak, conn,
              mAppIdRegistry, mCompliant, subscriptions, mAuthenticator, mResolver,
              jobs, effects, lastEvent, configuring, calling>>
routerVars == <<lastResolve>>
\* the variables of the specifications other than the query, the resolution
\* table and the responder
telemetryVars ==
    <<telemetry, lifecycle, apiSamples, telEvent, decrementing, admitted,
      flushing, expiring>>
formatVars == <<formatted>>
delegateVars == <<delegate, delegateCall, launched, notifying>>
subscriptionVars == <<userSettings, textTrack, subscribing, subscribeCall>>
healthVars == <<ledger>>
speedVars == <<voiceGuidance, speeding>>
otherVars ==
    <<formatVars, delegateVars, subscriptionVars, healthVars, speedVars>>
auxVars == <<routerVars, telemetryVars, otherVars>>
vars == <<query, resolved, mResolutions, mConfigured, loadLog, lastLookup,
          loadReturns,
          phase, weakHolder, useCount, handlers, capturedWeak, conn,
          mAppIdRegistry, mCompliant, subscriptions, mAuthenticator, mResolver,
          jobs, effects, lastEvent, configuring, calling, lastResolve,
          telemetry, lifecycle, apiSamples, telEvent, decrementing, admitted,
          expiring,
          formatted, delegate, delegateCall, notifying,
          userSettings, textTrack, subscribing, subscribeCall,
          flushing, ledger, launched, voiceGuidance, speeding>>

(***************************************************************************)
(* std::string primitives                                                  *)
(***************************************************************************)

\* std::string::npos
NPOS == -1

\* s.find(k): the 0-based index of the first occurrence of k in s, or npos
Find(s, k) ==
    LET hits == {i \in 0..(Len(s) - Len(k)) : SubSeq(s, i + 1, i + Len(k)) = k}
    IN  IF hits = {} THEN NPOS
        ELSE CHOOSE i \in hits : \A j \in hits : i <= j

\* s.substr(pos, n) for pos <= s.size(): at most n characters from pos
Substr(s, pos, n) ==
    LET last == IF pos + n > Len(s) THEN Len(s) ELSE pos + n
    IN  SubSeq(s, pos + 1, last)

\* s.substr(pos) for pos <= s.size()
SubstrFrom(s, pos) == SubSeq(s, pos + 1, Len(s))

Concat(s, t) == s \o t

RECURSIVE JoinWith(_, _)
\* the strings of the list l joined by the separator sep
JoinWith(l, sep) ==
    IF Len(l) = 0 THEN <<>>
    ELSE IF Len(l) = 1 THEN l[1]
    ELSE l[1] \o sep \o JoinWith(Tail(l), sep)


(***************************************************************************)
(* Utils::ResolveQuery (helpers/UtilsConnections.h)                        *)
(***************************************************************************)

\* the key the auth handler asks for: "session"
SessionKey == <<"s", "e", "s", "s", "i", "o", "n">>

Amp == <<"&">>
Eq == <<"=">>

Returned(v) == [state |-> "returned", value |-> v]
\* std::out_of_range leaving the function
Threw == [state |-> "threw", value |-> <<>>]
Pending == [state |-> "pending", value |-> <<>>]

\* std::string ResolveQuery(const std::string &query, const std::string &key)
ResolveQuery(q, key) ==
    IF Len(q) = 0 THEN Returned(<<>>)                       \* query.empty()
    ELSE LET pos == Find(q, key) IN                          \* query.find(key)
         IF pos = NPOS THEN Returned(<<>>)
         \* query.substr(pos + key.length() + 1) throws when the index is past the end
         ELSE IF pos + Len(key) + 1 > Len(q) THEN Threw
         ELSE LET value == SubstrFrom(q, pos + Len(key) + 1) IN
              IF Len(value) = 0 THEN Returned(<<>>)
              \* the position of '&' is taken in the whole query ...
              ELSE LET additional_param_key == Find(q, Amp) IN
                   IF additional_param_key # NPOS
                   \* ... and used as a length in value
                   THEN LET new_value == Substr(value, 0, additional_param_key) IN
                        IF Len(new_value) = 0 THEN Returned(value)
                        ELSE Returned(new_value)
                   ELSE Returned(value)

(***************************************************************************)
(* SpecQuery: ResolveQuery applied to every query of up to MaxParams       *)
(* parameters joined by '&'.                                               *)
(***************************************************************************)

MaxParams == 3

OtherKey == <<"x">>
ShortValue == <<"a">>
LongValue == <<"a", "b", "c", "d">>

\* one parameter of a query: key=value, or the bare key "session"
ParamTexts ==
    {k \o Eq \o v : k \in {SessionKey, OtherKey}, v \in {<<>>, ShortValue, LongValue}}
    \cup {SessionKey}

ParamLists == UNION {[1..n -> ParamTexts] : n \in 0..MaxParams}

Queries == {JoinWith(l, Amp) : l \in ParamLists}

\* The 0-based positions at which a parameter "session=" starts in q: at the
\* start of the query or right after an '&'.
SessionParamStarts(q) ==
    {i \in 0..(Len(q) - Len(SessionKey) - 1) :
        /\ SubSeq(q, i + 1, i + Len(SessionKey) + 1) = SessionKey \o Eq
        /\ (i = 0 \/ q[i] = "&")}

\* The token of the first session parameter of q: the characters between
\* "session=" and the next '&' or the end of the query; empty when q has no
\* session parameter.
SessionTokenOf(q) ==
    IF SessionParamStarts(q) = {} THEN <<>>
    ELSE LET i == CHOOSE i \in SessionParamStarts(q) :
                      \A j \in SessionParamStarts(q) : i <= j
             from == i + Len(SessionKey) + 1
             rest == SubstrFrom(q, from)
             amp == Find(rest, Amp)
         IN  IF amp = NPOS THEN rest ELSE Substr(rest, 0, amp)

InitQueryIdle == query = <<>> /\ resolved = Pending

CallResolveQuery ==
    /\ resolved.state = "pending"
    /\ resolved' = ResolveQuery(query, SessionKey)
    /\ UNCHANGED query


CallResolveQueryStep ==
    CallResolveQuery /\ UNCHANGED <<resolverVars, respVars, auxVars>>

(***************************************************************************)
(* StringUtils::toLower (helpers/StringUtils.h)                            *)
(***************************************************************************)

UpperCase == <<"A", "B", "C", "D", "E", "F", "G", "H", "I", "J", "K", "L", "M",
               "N", "O", "P", "Q", "R", "S", "T", "U", "V", "W", "X", "Y", "Z">>
LowerCase == <<"a", "b", "c", "d", "e", "f", "g", "h", "i", "j", "k", "l", "m",
               "n", "o", "p", "q", "r", "s", "t", "u", "v", "w", "x", "y", "z">>

\* std::tolower of one character
ToLowerChar(c) ==
    IF \E i \in 1..Len(UpperCase) : UpperCase[i] = c
    THEN LowerCase[CHOOSE i \in 1..Len(UpperCase) : UpperCase[i] = c]
    ELSE c

\* std::toupper of one character (used only to state case-insensitivity)
ToUpperChar(c) ==
    IF \E i \in 1..Len(LowerCase) : LowerCase[i] = c
    THEN UpperCase[CHOOSE i \in 1..Len(LowerCase) : LowerCase[i] = c]
    ELSE c

\* static std::string toLower(const std::string& input)
ToLower(s) == [i \in 1..Len(s) |-> ToLowerChar(s[i])]

ToUpper(s) == [i \in 1..Len(s) |-> ToUpperChar(s[i])]

EqualIgnoringCase(s, t) == ToLower(s) = ToLower(t)

(***************************************************************************)
(* The resolution table (Resolver::LoadConfig, Resolver::ResolveAlias).    *)
(* Resolver.cpp is not among the sources; the table is modelled from the   *)
(* specification (4.B) and from the L1 tests that drive it.                *)
(***************************************************************************)

MaxLoads == 3

Entry(alias, event, useComRpc, includeContext) ==
    [alias |-> alias, event |-> event, useComRpc |-> useComRpc,
     includeContext |-> includeContext]

NoEntry == Entry("", "", FALSE, FALSE)

KeyEntry(key, e) == [key |-> key, entry |-> e]

\* method names of the test fixtures, shortened: "a.b" in three casings, and "c"
MethodLower == <<"a", ".", "b">>
MethodMixed == <<"A", ".", "b">>
MethodUpper == <<"A", ".", "B">>
MethodOther == <<"c">>
MethodUnknown == <<"d">>

FirstPlugin == Entry("org.rdk.FirstPlugin.first", "", FALSE, FALSE)
SecondPlugin == Entry("org.rdk.SecondPlugin.second", "", TRUE, FALSE)
EventPlugin == Entry("org.rdk.AppGatewayCommon", "someEvent", FALSE, FALSE)

OkFile(entries) == [kind |-> "ok", entries |-> entries]

\* The configuration files LoadConfig is given: a missing file, a file that is
\* not JSON, a JSON document without "resolutions", and documents with one or
\* two resolutions.
ConfigFiles ==
    { [kind |-> "missing", entries |-> <<>>],
      [kind |-> "invalid", entries |-> <<>>],
      [kind |-> "noresolutions", entries |-> <<>>],
      OkFile(<<KeyEntry(MethodMixed, FirstPlugin)>>),
      OkFile(<<KeyEntry(MethodLower, SecondPlugin)>>),
      OkFile(<<KeyEntry(MethodUpper, EventPlugin)>>),
      OkFile(<<KeyEntry(MethodOther, SecondPlugin)>>),
      OkFile(<<KeyEntry(MethodUpper, FirstPlugin), KeyEntry(MethodLower, EventPlugin)>>),
      OkFile(<<KeyEntry(MethodLower, FirstPlugin), KeyEntry(MethodOther, FirstPlugin)>>) }

LookupNames == {MethodLower, MethodMixed, MethodUpper, MethodOther, MethodUnknown}

\* m with key mapped to e
MapPut(m, key, e) == [k \in DOMAIN m \cup {key} |-> IF k = key THEN e ELSE m[k]]

EmptyMap == [k \in {} |-> NoEntry]

\* mutant of StoreResolution: the key is stored as written
StoreResolutionAsWritten(m, key, e) == MapPut(m, key, e)

\* mutant of StoreResolution: an entry already present is kept
StoreResolutionFirstWins(m, key, e) ==
    IF ToLower(key) \in DOMAIN m THEN m ELSE MapPut(m, ToLower(key), e)

\* one resolution of a loaded document stored under its lowercased key; an
\* entry already present for that key is replaced
StoreResolution(m, key, e) == MapPut(m, ToLower(key), e)

RECURSIVE StoreAll(_, _)
\* the resolutions of a document stored in document order
StoreAll(m, entries) ==
    IF Len(entries) = 0 THEN m
    ELSE StoreAll(StoreResolution(m, entries[1].key, entries[1].entry), Tail(entries))

\* mutant of LoadConfigResult: every load reports success
LoadConfigResultAlwaysTrue(file) == TRUE

\* what Resolver::LoadConfig(path) returns for the file at path
LoadConfigResult(file) == file.kind = "ok"

\* the table after Resolver::LoadConfig(path): merged on success, untouched on failure
LoadConfigTable(m, file) ==
    IF LoadConfigResult(file) THEN StoreAll(m, file.entries) ELSE m

\* the lookup behind ResolveAlias / HasEvent / HasComRpcRequestSupport
LookupResolution(m, method) ==
    IF ToLower(method) \in DOMAIN m
    THEN [found |-> TRUE, entry |-> m[ToLower(method)]]
    ELSE [found |-> FALSE, entry |-> NoEntry]

NoLookup == [method |-> <<>>, found |-> FALSE, entry |-> NoEntry, done |-> FALSE]

InitResolverIdle ==
    /\ mResolutions = EmptyMap
    /\ mConfigured = FALSE
    /\ loadLog = <<>>
    /\ lastLookup = NoLookup
    /\ loadReturns = <<>>

\* bool Resolver::LoadConfig(const std::string& path)
LoadConfig(file) ==
    /\ Len(loadLog) < MaxLoads
    /\ mResolutions' = LoadConfigTable(mResolutions, file)
    /\ mConfigured' = (mConfigured \/ LoadConfigResult(file))
    /\ loadLog' = Append(loadLog, file)
    /\ loadReturns' = Append(loadReturns, LoadConfigResult(file))
    /\ lastLookup' = NoLookup

\* std::string Resolver::ResolveAlias(const std::string& method)
ResolveAlias(method) ==
    /\ lastLookup' = [method |-> method,
                      found |-> LookupResolution(mResolutions, method).found,
                      entry |-> LookupResolution(mResolutions, method).entry,
                      done |-> TRUE]
    /\ UNCHANGED <<mResolutions, mConfigured, loadLog, loadReturns>>


ResolveAliasStep ==
    \E method \in LookupNames :
        ResolveAlias(method) /\ UNCHANGED <<queryVars, respVars, auxVars>>

LoadConfigStep ==
    \E file \in ConfigFiles :
        LoadConfig(file) /\ UNCHANGED <<queryVars, respVars, auxVars>>

(***************************************************************************)
(* The responder (AppGatewayResponderImplementation.cpp)                   *)
(***************************************************************************)

MaxConn == 2
MaxJobs == 1

\* the threads of the plugins that call into the gateway: Respond, Emit and
\* Request, RecordTelemetryEvent, RecordTelemetryMetric and
\* RecordBootstrapTime, SetSpeed and GetSpeed
MaxCallers == 2

Callers == 1..MaxCallers

ConnIds == 1..MaxConn
\* the request id carried by the contexts of API calls and frames
RequestIds == {7}

\* Core::ERROR_NONE
ERROR_NONE == "ERROR_NONE"

\* --- the weak self reference ---------------------------------------------
\* A std::weak_ptr is either empty (default constructed, or reset) or refers
\* to the one control block CreateWeakSelf makes; useCount is that block's
\* strong count.  lock() yields an object only while the strong count is
\* positive.

\* void CreateWeakSelf(): tempShared is the only shared_ptr to the control
\* block; the holder keeps a weak_ptr made from it.  tempShared is a local of
\* the if-block and is destroyed when the block ends, which takes the strong
\* count from 1 to 0 (the no-op deleter runs; the weak_ptr in the holder and
\* every later copy of it are expired from then on).
CreateWeakSelf(holder, uc) ==
    IF holder = "none" THEN [holder |-> "ctrl", useCount |-> 0]
    ELSE [holder |-> holder, useCount |-> uc]

\* WeakPtr GetWeakSelf() const
GetWeakSelf(holder) == IF holder # "none" THEN holder ELSE "empty"

\* void ClearWeakSelf(): resets the held weak_ptr, then the holder itself.
\* Copies handed out earlier are separate weak_ptr objects and keep their value.
ClearWeakSelfHolder(holder) == "none"

\* weak.lock() yields a non-null shared_ptr
WeakLock(weak, uc) == weak = "ctrl" /\ uc > 0

\* --- work items -------------------------------------------------------------

Job(kind, weak, c, id, method, payload) ==
    [kind |-> kind, weak |-> weak, conn |-> c, id |-> id, method |-> method,
     payload |-> payload]

RespondJob(weak, c, requestId, payload) == Job("respond", weak, c, requestId, "", payload)
EmitJob(weak, c, method, payload) == Job("emit", weak, c, 0, method, payload)
RequestJob(weak, c, id, method, params) == Job("request", weak, c, id, method, params)
WsMsgJob(weak, method, params, requestId, c) == Job("wsmsg", weak, c, requestId, method, params)
ConnectionStatusNotificationJob(weak, c, appId, connected) ==
    Job("status", weak, c, IF connected THEN 1 ELSE 0, "", appId)

\* Core::IWorkerPool::Instance().Submit: the pool holds the submitted work items
\* until a worker runs them; with two or more workers they run in any order.
RECURSIVE Submit(_, _)
Submit(pool, items) ==
    IF Len(items) = 0 THEN pool
    ELSE Submit(pool (+) SetToBag({items[1]}), Tail(items))

\* --- collaborators ------------------------------------------------------------

\* query strings clients connect with
ComplianceMarker == <<"R", "P", "C", "V", "2", "=", "t", "r", "u", "e">>
QuerySessionCompliant == ComplianceMarker \o Amp \o SessionKey \o Eq \o ShortValue
QueryNoSession == OtherKey \o Eq \o ShortValue
AuthQueries == {QuerySessionCompliant, QueryNoSession}

\* The authenticator's table: which session ids it maps to an appId ("" = none).
AuthenticateAppId(sessionId) ==
    IF sessionId = ShortValue THEN "app1"
    ELSE IF sessionId = LongValue THEN "app2"
    ELSE ""

\* CompliantJsonRpcRegistry::CheckAndAddCompliantJsonRpc: the connection is
\* added when its token advertises the compliance marker
AdvertisesCompliance(token) == Find(token, ComplianceMarker) # NPOS

NoEffects == [sent |-> {}, resolved |-> {}, closed |-> {}, cleaned |-> {}, notified |-> {}]

NoApp == ""

\* lastEvent records the most recent step: kind is "none" (nothing yet),
\* "lifecycle" (Configure or a step of the destructor), "auth", "message",
\* "disconnect" (a handler invocation), "call" (an interface call) or "job"
\* (a work item run by the pool); the other fields depend on the kind.
NoEvent == [kind |-> "none"]
LifecycleEvent(op) == [kind |-> "lifecycle", op |-> op]

\* inbound method names: a request and an event subscription
Methods == {"call", "subscribe"}
\* the method of an Emit or a Request, and the payload of every call
EventName == "event"
Payload == "p"

\* the thread inside Configure: pc names the last statement it completed,
\* weakSelf is the local copy InitializeWebsocket takes (line 124)
NotConfiguring == [pc |-> "idle", weakSelf |-> "empty"]

\* a thread that is in no Respond, Emit or Request call
NotCalling == [op |-> "none"]

InitResponder ==
    /\ phase = "constructed"
    /\ weakHolder = "none"
    /\ useCount = 0
    /\ handlers = [msg |-> "unset", auth |-> "unset", disc |-> "unset", started |-> FALSE]
    /\ capturedWeak = "empty"
    /\ conn = [c \in ConnIds |-> "none"]
    /\ mAppIdRegistry = [c \in ConnIds |-> NoApp]
    /\ mCompliant = {}
    /\ subscriptions = {}
    /\ mAuthenticator = "null"
    /\ mResolver = "null"
    /\ jobs = EmptyBag
    /\ effects = NoEffects
    /\ lastEvent = NoEvent
    /\ configuring = NotConfiguring
    /\ calling = [thread \in Callers |-> NotCalling]

\* the destructor has called CleanupWebsocket and replaced at least one handler
ShutdownStarted == phase \in {"cleanup_msg", "cleanup_auth", "cleaned", "cleared", "destroyed"}

\* ClearWeakSelf has run in the destructor
WeakSelfCleared == phase \in {"cleared", "destroyed"}

\* the object's members may still be used by API callers
ObjectAlive == phase # "destroyed"

\* uint32_t Configure(PluginHost::IShell *shell) is CreateWeakSelf followed by
\* InitializeWebsocket, which takes one copy of the weak reference, installs
\* the three handlers that capture it and starts the manager.  mWeakSelfLock
\* is held inside CreateWeakSelf and inside GetWeakSelf only, so every
\* statement is a step other threads can run between.  Nothing in Configure
\* tests whether it ran before: a second call finds the holder set, installs
\* the handlers again and starts the manager again.  The framework calls
\* Configure and the destructor from one thread, one after the other.

\* mService = shell; mService->AddRef(); CreateWeakSelf();
ConfigureCreateWeakSelf ==
    /\ phase \in {"constructed", "configured"}
    /\ configuring.pc = "idle"
    /\ LET made == CreateWeakSelf(weakHolder, useCount) IN
        /\ weakHolder' = made.holder
        /\ useCount' = made.useCount
    /\ configuring' = [pc |-> "created", weakSelf |-> "empty"]
    /\ UNCHANGED <<phase, handlers, capturedWeak, conn, mAppIdRegistry, mCompliant,
                   subscriptions, mAuthenticator, mResolver, jobs, effects,
                   lastEvent, calling>>

\* WeakPtr weakSelf = GetWeakSelf();
InitializeWebsocketGetWeakSelf ==
    /\ configuring.pc = "created"
    /\ configuring' = [pc |-> "copied", weakSelf |-> GetWeakSelf(weakHolder)]
    /\ UNCHANGED <<phase, weakHolder, useCount, handlers, capturedWeak, conn,
                   mAppIdRegistry, mCompliant, subscriptions, mAuthenticator,
                   mResolver, jobs, effects, lastEvent, calling>>

\* mWsManager.SetMessageHandler([weakSelf](...) {...});
SetMessageHandler ==
    /\ configuring.pc = "copied"
    /\ handlers' = [handlers EXCEPT !.msg = "real"]
    /\ capturedWeak' = configuring.weakSelf
    /\ configuring' = [configuring EXCEPT !.pc = "msg"]
    /\ UNCHANGED <<phase, weakHolder, useCount, conn, mAppIdRegistry, mCompliant,
                   subscriptions, mAuthenticator, mResolver, jobs, effects,
                   lastEvent, calling>>

\* mWsManager.SetAuthHandler([weakSelf](...) {...});
SetAuthHandler ==
    /\ configuring.pc = "msg"
    /\ handlers' = [handlers EXCEPT !.auth = "real"]
    /\ capturedWeak' = configuring.weakSelf
    /\ configuring' = [configuring EXCEPT !.pc = "auth"]
    /\ UNCHANGED <<phase, weakHolder, useCount, conn, mAppIdRegistry, mCompliant,
                   subscriptions, mAuthenticator, mResolver, jobs, effects,
                   lastEvent, calling>>

\* mWsManager.SetDisconnectHandler([weakSelf](...) {...});
SetDisconnectHandler ==
    /\ configuring.pc = "auth"
    /\ handlers' = [handlers EXCEPT !.disc = "real"]
    /\ capturedWeak' = configuring.weakSelf
    /\ configuring' = [configuring EXCEPT !.pc = "disc"]
    /\ UNCHANGED <<phase, weakHolder, useCount, conn, mAppIdRegistry, mCompliant,
                   subscriptions, mAuthenticator, mResolver, jobs, effects,
                   lastEvent, calling>>

\* mWsManager.Start(source); Configure returns
Start ==
    /\ configuring.pc = "disc"
    /\ handlers' = [handlers EXCEPT !.started = TRUE]
    /\ phase' = "configured"
    /\ configuring' = NotConfiguring
    /\ lastEvent' = LifecycleEvent("Configure")
    /\ UNCHANGED <<weakHolder, useCount, capturedWeak, conn, mAppIdRegistry,
                   mCompliant, subscriptions, mAuthenticator, mResolver, jobs,
                   effects, calling>>


\* --- the handler triple -------------------------------------------------------
\* Each handler is an operator giving what one invocation does to the state
\* it may touch; the connection-event actions below apply it.

AuthOutcome(result, locked, registry, compliant, authenticator, submitted) ==
    [result |-> result, locked |-> locked, registry |-> registry,
     compliant |-> compliant, authenticator |-> authenticator,
     submitted |-> submitted]

\* the no-op auth handler CleanupWebsocket installs: rejects
NoopAuthHandler ==
    AuthOutcome(FALSE, FALSE, mAppIdRegistry, mCompliant, mAuthenticator, <<>>)

\* The auth handler InitializeWebsocket installs.  available: whether
\* QueryInterfaceByCallsign finds the authenticator plugin.  An exception
\* leaving ResolveQuery leaves the handler without a true result.
AuthHandler(c, token, available) ==
    IF ~WeakLock(capturedWeak, useCount)
    THEN AuthOutcome(FALSE, FALSE, mAppIdRegistry, mCompliant, mAuthenticator, <<>>)
    ELSE LET sessionId == ResolveQuery(token, SessionKey) IN
         IF sessionId.state = "threw" \/ Len(sessionId.value) = 0
         THEN AuthOutcome(FALSE, TRUE, mAppIdRegistry, mCompliant, mAuthenticator, <<>>)
         ELSE IF mAuthenticator = "null" /\ ~available
         THEN AuthOutcome(FALSE, TRUE, mAppIdRegistry, mCompliant, mAuthenticator, <<>>)
         ELSE LET appId == AuthenticateAppId(sessionId.value) IN
              IF appId # NoApp
              THEN AuthOutcome(TRUE, TRUE,
                               [mAppIdRegistry EXCEPT ![c] = appId],
                               IF AdvertisesCompliance(token)
                                   THEN mCompliant \cup {c} ELSE mCompliant,
                               "acquired",
                               <<ConnectionStatusNotificationJob(capturedWeak, c, appId, TRUE)>>)
              ELSE AuthOutcome(FALSE, TRUE, mAppIdRegistry, mCompliant, "acquired", <<>>)

\* The message handler InitializeWebsocket installs: the work items it submits.
MessageHandler(c, method, params, requestId) ==
    IF WeakLock(capturedWeak, useCount)
    THEN <<WsMsgJob(capturedWeak, method, params, requestId, c)>>
    ELSE <<>>

DisconnectOutcome(locked, registry, compliant, subs, cleaned, submitted) ==
    [locked |-> locked, registry |-> registry, compliant |-> compliant,
     subs |-> subs, cleaned |-> cleaned, submitted |-> submitted]

\* the no-op disconnect handler CleanupWebsocket installs
NoopDisconnectHandler ==
    DisconnectOutcome(FALSE, mAppIdRegistry, mCompliant, subscriptions, effects.cleaned, <<>>)

\* The disconnect handler InitializeWebsocket installs.  notifAvailable: whether
\* the AppNotifications plugin is found; cleanupOk: whether its Cleanup succeeds
\* (a successful Cleanup drops the connection's subscriptions).
DisconnectHandler(c, notifAvailable, cleanupOk) ==
    IF ~WeakLock(capturedWeak, useCount)
    THEN DisconnectOutcome(FALSE, mAppIdRegistry, mCompliant, subscriptions,
                           effects.cleaned, <<>>)
    ELSE DisconnectOutcome(TRUE,
            [mAppIdRegistry EXCEPT ![c] = NoApp],
            mCompliant \ {c},
            IF notifAvailable /\ cleanupOk THEN subscriptions \ {c} ELSE subscriptions,
            IF notifAvailable THEN effects.cleaned \cup {c} ELSE effects.cleaned,
            IF mAppIdRegistry[c] # NoApp
                THEN <<ConnectionStatusNotificationJob(capturedWeak, c, mAppIdRegistry[c], FALSE)>>
                ELSE <<>>)

\* --- connection events (the connection manager calling the handlers) ---------

\* the manager accepts connections from Start until it is destroyed with the object
ManagerRunning == handlers.started /\ ObjectAlive

\* connection ids are handed out in increasing order and never reused
NextConnection(c) == conn[c] = "none" /\ \A d \in ConnIds : d < c => conn[d] # "none"

\* A connection completes its upgrade and the manager calls onAuth once with
\* the raw query; false terminates the connection, true admits it.
OnAuth(c, token, available) ==
    /\ ManagerRunning
    /\ NextConnection(c)
    /\ LET o == IF handlers.auth = "real" THEN AuthHandler(c, token, available)
                ELSE NoopAuthHandler
       IN /\ BagCardinality(jobs) + Len(o.submitted) <= MaxJobs
          /\ conn' = [conn EXCEPT ![c] = IF o.result THEN "admitted" ELSE "rejected"]
          /\ lastEvent' = [kind |-> "auth", conn |-> c, token |-> token,
                            available |-> available, impl |-> handlers.auth,
                            weak |-> capturedWeak, locked |-> o.locked,
                            result |-> o.result, shut |-> ShutdownStarted,
                            late |-> WeakSelfCleared]
          /\ mAppIdRegistry' = o.registry
          /\ mCompliant' = o.compliant
          /\ mAuthenticator' = o.authenticator
          /\ jobs' = Submit(jobs, o.submitted)
    /\ UNCHANGED <<phase, weakHolder, useCount, handlers, capturedWeak, subscriptions,
                   mResolver, effects,
                   configuring, calling>>

\* The manager hands a well-formed frame of an admitted connection to onMessage.
OnMessage(c, method) ==
    /\ ManagerRunning
    /\ conn[c] = "admitted"
    /\ LET submitted == IF handlers.msg = "real"
                        THEN MessageHandler(c, method, Payload, CHOOSE r \in RequestIds : TRUE)
                        ELSE <<>>
       IN /\ BagCardinality(jobs) + Len(submitted) <= MaxJobs
          /\ jobs' = Submit(jobs, submitted)
          /\ lastEvent' = [kind |-> "message", conn |-> c, method |-> method,
                            impl |-> handlers.msg, weak |-> capturedWeak,
                            locked |-> submitted # <<>>, shut |-> ShutdownStarted,
                            late |-> WeakSelfCleared]
    /\ UNCHANGED <<phase, weakHolder, useCount, handlers, capturedWeak, conn,
                   mAppIdRegistry, mCompliant, subscriptions, mAuthenticator,
                   mResolver, effects,
                   configuring, calling>>

\* An admitted connection closes and the manager calls onDisconnect once.
OnDisconnect(c, notifAvailable, cleanupOk) ==
    /\ ManagerRunning
    /\ conn[c] = "admitted"
    /\ LET o == IF handlers.disc = "real"
                THEN DisconnectHandler(c, notifAvailable, cleanupOk)
                ELSE NoopDisconnectHandler
       IN /\ BagCardinality(jobs) + Len(o.submitted) <= MaxJobs
          /\ mAppIdRegistry' = o.registry
          /\ mCompliant' = o.compliant
          /\ subscriptions' = o.subs
          /\ effects' = [effects EXCEPT !.cleaned = o.cleaned]
          /\ jobs' = Submit(jobs, o.submitted)
          /\ lastEvent' = [kind |-> "disconnect", conn |-> c,
                            impl |-> handlers.disc, weak |-> capturedWeak,
                            locked |-> o.locked, shut |-> ShutdownStarted,
                            late |-> WeakSelfCleared]
    /\ conn' = [conn EXCEPT ![c] = "closed"]
    /\ UNCHANGED <<phase, weakHolder, useCount, handlers, capturedWeak,
                   mAuthenticator, mResolver,
                   configuring, calling>>


\* --- the responder interface ------------------------------------------------

Call(op, c, id, method, compliant, submitted) ==
    [kind |-> "call", op |-> op, conn |-> c, id |-> id, method |-> method,
     payload |-> Payload, compliant |-> compliant, submitted |-> submitted,
     result |-> ERROR_NONE]

\* A call reads the weak self inside GetWeakSelf, under mWeakSelfLock, and
\* hands the work item to the pool after the lock is released: calling holds
\* the call of each thread between the two (pc names the last statement
\* completed).  None of the three calls takes a lock of its own, so the calls
\* of different threads overlap.
Calling(op, pc, c, id, method, compliant, weak) ==
    [op |-> op, pc |-> pc, conn |-> c, id |-> id, method |-> method,
     compliant |-> compliant, weak |-> weak]

\* Core::hresult Respond(const Context& context, const string& payload):
\* the argument GetWeakSelf() of RespondJob::Create
RespondGetWeakSelf(thread, c, requestId) ==
    /\ ObjectAlive
    /\ calling[thread] = NotCalling
    /\ calling' = [calling EXCEPT ![thread] =
                       Calling("Respond", "copied", c, requestId, "", FALSE,
                               GetWeakSelf(weakHolder))]
    /\ UNCHANGED <<phase, weakHolder, useCount, handlers, capturedWeak, conn,
                   mAppIdRegistry, mCompliant, subscriptions, mAuthenticator,
                   mResolver, jobs, effects, lastEvent, configuring>>

\* Respond: Core::IWorkerPool::Instance().Submit(RespondJob::Create(...))
RespondSubmit(thread) ==
    /\ calling[thread].op = "Respond"
    /\ BagCardinality(jobs) < MaxJobs
    /\ LET call == calling[thread]
           submitted == <<RespondJob(call.weak, call.conn, call.id, Payload)>>
       IN /\ jobs' = Submit(jobs, submitted)
          /\ lastEvent' = Call("Respond", call.conn, call.id, "", FALSE, submitted)
    /\ calling' = [calling EXCEPT ![thread] = NotCalling]
    /\ UNCHANGED <<phase, weakHolder, useCount, handlers, capturedWeak, conn,
                   mAppIdRegistry, mCompliant, subscriptions, mAuthenticator,
                   mResolver, effects, configuring>>

\* the work items Emit submits: an EmitJob when the connection is compliant
\* with JSON RPC, a RespondJob otherwise
EmitSubmits(weak, compliant, c, requestId, method, payload) ==
    IF compliant
    THEN <<EmitJob(weak, c, method, payload)>>
    ELSE <<RespondJob(weak, c, requestId, payload)>>

\* Core::hresult Emit(const Context& context, const string& method, const string& payload):
\* the test mCompliantJsonRpcRegistry.IsCompliantJsonRpc(context.connectionId)
EmitIsCompliantJsonRpc(thread, c, requestId, method) ==
    /\ ObjectAlive
    /\ calling[thread] = NotCalling
    /\ calling' = [calling EXCEPT ![thread] =
                       Calling("Emit", "tested", c, requestId, method,
                               c \in mCompliant, "empty")]
    /\ UNCHANGED <<phase, weakHolder, useCount, handlers, capturedWeak, conn,
                   mAppIdRegistry, mCompliant, subscriptions, mAuthenticator,
                   mResolver, jobs, effects, lastEvent, configuring>>

\* Emit: the argument GetWeakSelf() of EmitJob::Create or RespondJob::Create.
\* The call goes on whatever the destructor has done since the test: the
\* holder it reads has been reset by then, and GetWeakSelf gives an empty
\* reference.
EmitGetWeakSelf(thread) ==
    /\ calling[thread].op = "Emit"
    /\ calling[thread].pc = "tested"
    /\ calling' = [calling EXCEPT ![thread].pc = "copied",
                                  ![thread].weak = GetWeakSelf(weakHolder)]
    /\ UNCHANGED <<phase, weakHolder, useCount, handlers, capturedWeak, conn,
                   mAppIdRegistry, mCompliant, subscriptions, mAuthenticator,
                   mResolver, jobs, effects, lastEvent, configuring>>

\* Emit: Core::IWorkerPool::Instance().Submit(...)
EmitSubmit(thread) ==
    /\ calling[thread].op = "Emit"
    /\ calling[thread].pc = "copied"
    /\ LET call == calling[thread]
           submitted == EmitSubmits(call.weak, call.compliant, call.conn,
                                    call.id, call.method, Payload)
       IN /\ BagCardinality(jobs) < MaxJobs
          /\ jobs' = Submit(jobs, submitted)
          /\ lastEvent' = Call("Emit", call.conn, call.id, call.method,
                               call.compliant, submitted)
    /\ calling' = [calling EXCEPT ![thread] = NotCalling]
    /\ UNCHANGED <<phase, weakHolder, useCount, handlers, capturedWeak, conn,
                   mAppIdRegistry, mCompliant, subscriptions, mAuthenticator,
                   mResolver, effects, configuring>>

\* Core::hresult Request(const uint32_t connectionId, const uint32_t id,
\*                       const string& method, const string& params):
\* the argument GetWeakSelf() of RequestJob::Create
RequestGetWeakSelf(thread, c, id, method) ==
    /\ ObjectAlive
    /\ calling[thread] = NotCalling
    /\ calling' = [calling EXCEPT ![thread] =
                       Calling("Request", "copied", c, id, method, FALSE,
                               GetWeakSelf(weakHolder))]
    /\ UNCHANGED <<phase, weakHolder, useCount, handlers, capturedWeak, conn,
                   mAppIdRegistry, mCompliant, subscriptions, mAuthenticator,
                   mResolver, jobs, effects, lastEvent, configuring>>

\* Request: Core::IWorkerPool::Instance().Submit(RequestJob::Create(...))
RequestSubmit(thread) ==
    /\ calling[thread].op = "Request"
    /\ BagCardinality(jobs) < MaxJobs
    /\ LET call == calling[thread]
           submitted == <<RequestJob(call.weak, call.conn, call.id,
                                     call.method, Payload)>>
       IN /\ jobs' = Submit(jobs, submitted)
          /\ lastEvent' = Call("Request", call.conn, call.id, call.method,
                               FALSE, submitted)
    /\ calling' = [calling EXCEPT ![thread] = NotCalling]
    /\ UNCHANGED <<phase, weakHolder, useCount, handlers, capturedWeak, conn,
                   mAppIdRegistry, mCompliant, subscriptions, mAuthenticator,
                   mResolver, effects, configuring>>

\* --- work items run by the worker pool ------------------------------------------

DispatchOutcome(resolver, fx, subs) == [resolver |-> resolver, effects |-> fx, subs |-> subs]

\* void DispatchWsMsg(method, params, requestId, connectionId).
\* resolverAvailable: whether mService->QueryInterface finds the resolver.  A
\* Resolve of a subscription method registers the connection with the event
\* delegates.
DispatchWsMsg(method, params, requestId, c, resolverAvailable) ==
    IF mAppIdRegistry[c] # NoApp
    THEN IF mResolver = "null" /\ ~resolverAvailable
         THEN DispatchOutcome(mResolver, effects, subscriptions)
         ELSE DispatchOutcome("acquired",
                  [effects EXCEPT !.resolved = @ \cup
                      {[requestId |-> requestId, connectionId |-> c,
                        appId |-> mAppIdRegistry[c], method |-> method]}],
                  IF method = "subscribe" THEN subscriptions \cup {c} ELSE subscriptions)
    ELSE DispatchOutcome(mResolver,              \* mWsManager.Close(connectionId)
                         [effects EXCEPT !.closed = @ \cup {c}],
                         subscriptions)

\* Dispatch() of a work item whose weak reference locked
JobBody(job, resolverAvailable) ==
    IF job.kind = "wsmsg"
    THEN DispatchWsMsg(job.method, job.payload, job.id, job.conn, resolverAvailable)
    ELSE IF job.kind = "status"
    THEN DispatchOutcome(mResolver,
             [effects EXCEPT !.notified = @ \cup
                 {[conn |-> job.conn, appId |-> job.payload, connected |-> job.id = 1]}],
             subscriptions)
    ELSE DispatchOutcome(mResolver,              \* respond, emit, request: a send
             [effects EXCEPT !.sent = @ \cup
                 {[kind |-> job.kind, conn |-> job.conn, id |-> job.id,
                   method |-> job.method, payload |-> job.payload]}],
             subscriptions)

\* A worker takes a submitted work item and runs it: the item locks its weak
\* reference and does its work only if that yields the object.
RunJob(job, resolverAvailable) ==
    /\ BagIn(job, jobs)
    /\ LET locked == WeakLock(job.weak, useCount)
           o == IF locked THEN JobBody(job, resolverAvailable)
                ELSE DispatchOutcome(mResolver, effects, subscriptions)
       IN /\ mResolver' = o.resolver
          /\ effects' = o.effects
          /\ subscriptions' = o.subs
          /\ lastEvent' = [kind |-> "job", what |-> job.kind, conn |-> job.conn,
                            weak |-> job.weak, locked |-> locked,
                            late |-> WeakSelfCleared]
    /\ jobs' = jobs (-) SetToBag({job})
    /\ UNCHANGED <<phase, weakHolder, useCount, handlers, capturedWeak, conn,
                   mAppIdRegistry, mCompliant, mAuthenticator,
                   configuring, calling>>

\* --- shutdown: ~AppGatewayResponderImplementation ----------------------------
\* The destructor runs CleanupWebsocket (three handler replacements, one after
\* the other, then a 10 ms sleep), ClearWeakSelf, and releases the interfaces.

CleanupSetMessageHandler ==
    /\ phase \in {"constructed", "configured"}
    /\ configuring.pc = "idle"
    /\ handlers' = [handlers EXCEPT !.msg = "noop"]
    /\ phase' = "cleanup_msg"
    /\ lastEvent' = LifecycleEvent("CleanupSetMessageHandler")
    /\ UNCHANGED <<weakHolder, useCount, capturedWeak, conn, mAppIdRegistry,
                   mCompliant, subscriptions, mAuthenticator, mResolver, jobs,
                   effects,
                   configuring, calling>>

CleanupSetAuthHandler ==
    /\ phase = "cleanup_msg"
    /\ handlers' = [handlers EXCEPT !.auth = "noop"]
    /\ phase' = "cleanup_auth"
    /\ lastEvent' = LifecycleEvent("CleanupSetAuthHandler")
    /\ UNCHANGED <<weakHolder, useCount, capturedWeak, conn, mAppIdRegistry,
                   mCompliant, subscriptions, mAuthenticator, mResolver, jobs,
                   effects,
                   configuring, calling>>

CleanupSetDisconnectHandler ==
    /\ phase = "cleanup_auth"
    /\ handlers' = [handlers EXCEPT !.disc = "noop"]
    /\ phase' = "cleaned"
    /\ lastEvent' = LifecycleEvent("CleanupSetDisconnectHandler")
    /\ UNCHANGED <<weakHolder, useCount, capturedWeak, conn, mAppIdRegistry,
                   mCompliant, subscriptions, mAuthenticator, mResolver, jobs,
                   effects,
                   configuring, calling>>

\* void ClearWeakSelf(), called by the destructor after CleanupWebsocket
ClearWeakSelf ==
    /\ phase = "cleaned"
    /\ weakHolder' = ClearWeakSelfHolder(weakHolder)
    /\ phase' = "cleared"
    /\ lastEvent' = LifecycleEvent("ClearWeakSelf")
    /\ UNCHANGED <<useCount, handlers, capturedWeak, conn, mAppIdRegistry,
                   mCompliant, subscriptions, mAuthenticator, mResolver, jobs,
                   effects,
                   configuring, calling>>

\* the rest of the destructor: mService, mResolver and mAuthenticator released,
\* then the members (the connection manager among them) destroyed
ReleaseInterfaces ==
    /\ phase = "cleared"
    /\ mResolver' = "null"
    /\ mAuthenticator' = "null"
    /\ phase' = "destroyed"
    /\ lastEvent' = LifecycleEvent("ReleaseInterfaces")
    /\ UNCHANGED <<weakHolder, useCount, handlers, capturedWeak, conn,
                   mAppIdRegistry, mCompliant, subscriptions, jobs, effects,
                   configuring, calling>>

(***************************************************************************)
(* The router (AppGatewayImplementation::Resolve).                         *)
(* AppGatewayImplementation.cpp is not among the sources; Resolve is       *)
(* modelled from the specification (4.D) and from the L1 tests that drive  *)
(* it (test_AppGateway.cpp, AppGatewayImplementationTest).                 *)
(***************************************************************************)

\* a resolution entry with the additionalContext object of its document
RouterEntry(alias, event, useComRpc, includeContext, additionalContext) ==
    [alias |-> alias, event |-> event, useComRpc |-> useComRpc,
     includeContext |-> includeContext, additionalContext |-> additionalContext]

\* method names of the test fixtures
EventMethod == <<"e">>
ComRpcMethod == <<"r">>
ComRpcContextMethod == <<"x">>

\* "additionalContext": { "foo": "bar" }, and no additionalContext
FooBar == [foo |-> "bar"]
NoContext == <<>>

EventResolution == RouterEntry("org.rdk.AppGatewayCommon", "dummy", FALSE, FALSE, NoContext)
ComRpcResolution == RouterEntry("org.rdk.SomeHandler", "", TRUE, FALSE, NoContext)
ComRpcContextResolution == RouterEntry("org.rdk.SomeHandler", "", FALSE, TRUE, FooBar)

\* the documents of the tests
EventFile == OkFile(<<KeyEntry(EventMethod, EventResolution)>>)
ComRpcFile == OkFile(<<KeyEntry(ComRpcMethod, ComRpcResolution),
                       KeyEntry(ComRpcContextMethod, ComRpcContextResolution)>>)
MissingFile == [kind |-> "missing", entries |-> <<>>]

\* the path lists Configure(paths) is given
RouterPathLists ==
    { <<EventFile>>, <<ComRpcFile>>, <<EventFile, ComRpcFile>>, <<MissingFile>> }

RouterMethods == {EventMethod, ComRpcMethod, ComRpcContextMethod, MethodUnknown}

\* The params string of a Resolve call, by what parsing it gives: the empty
\* string, text that is not a JSON object, or an object; for an object, its
\* field listen: absent, present but not a boolean, true or false.
ParamsOf(shape, listen) == [shape |-> shape, listen |-> listen]
ParamsEmpty == ParamsOf("empty", "absent")
ParamsNotObject == ParamsOf("notobject", "absent")
ParamsObject == ParamsOf("object", "absent")
ParamsListenNotBool == ParamsOf("object", "notbool")
ParamsListenTrue == ParamsOf("object", "true")
ParamsListenFalse == ParamsOf("object", "false")
RouterParams == {ParamsEmpty, ParamsNotObject, ParamsObject, ParamsListenNotBool,
                 ParamsListenTrue, ParamsListenFalse}

\* originAlias values
Origins == {"gateway", "some-origin"}

\* what a request handler answers: (hresult, response body)
HandlerAnswer(hresult, response) == [hresult |-> hresult, response |-> response]
HandlerAnswers == {HandlerAnswer("ERROR_NONE", "ok"), HandlerAnswer("ERROR_GENERAL", "failed")}

\* JSON-RPC error bodies {"code": code, "message": message}
ErrorBody(code, message) == [code |-> code, message |-> message]
MethodNotFound == ErrorBody(-32601, "MethodNotFound")
MissingListen == ErrorBody(-32602, "Missing required boolean 'listen' parameter")
NotAvailable == ErrorBody(-50200, "NotAvailable")

\* the boolean field listen of params, if params is an object that has one
HasListen(params) == params.shape = "object" /\ params.listen \in {"true", "false"}

\* merge(entry.additionalContext, {"origin": originAlias})
MergeOrigin(additionalContext, origin) ==
    [k \in DOMAIN additionalContext \cup {"origin"} |->
        IF k = "origin" THEN origin ELSE additionalContext[k]]

\* mutant of FinalParams: the params are wrapped whatever includeContext says
FinalParamsAlwaysWrapped(entry, params, origin) ==
    [params |-> params,
     _additionalContext |-> MergeOrigin(entry.additionalContext, origin)]

\* the params the request handler is given
FinalParams(entry, params, origin) ==
    IF entry.includeContext
    THEN [params |-> params,
          _additionalContext |-> MergeOrigin(entry.additionalContext, origin)]
    ELSE params

ResolveOutcome(hresult, body, delegateCalls, handlerCalls, acquired) ==
    [hresult |-> hresult, body |-> body, delegateCalls |-> delegateCalls,
     handlerCalls |-> handlerCalls, acquired |-> acquired]

\* mutant of EventPath: the subscription is made before listen is checked
EventPathSubscribesFirst(entry, c, params, delegateAvailable, delegateAnswer) ==
    IF ~HasListen(params)
    THEN ResolveOutcome("ERROR_BAD_REQUEST", MissingListen,
             <<[conn |-> c, event |-> entry.event, listen |-> FALSE]>>, <<>>,
             <<entry.alias>>)
    ELSE ResolveOutcome("ERROR_NONE", "null",
             <<[conn |-> c, event |-> entry.event, listen |-> params.listen = "true"]>>,
             <<>>, <<entry.alias>>)

\* the event path of Resolve: entry.event is not empty
EventPath(entry, c, params, delegateAvailable, delegateAnswer) ==
    IF ~HasListen(params)
    THEN ResolveOutcome("ERROR_BAD_REQUEST", MissingListen, <<>>, <<>>, <<>>)
    ELSE IF ~delegateAvailable
    THEN ResolveOutcome("ERROR_UNAVAILABLE", NotAvailable, <<>>, <<>>, <<entry.alias>>)
    ELSE ResolveOutcome(delegateAnswer,
             IF delegateAnswer = "ERROR_NONE" THEN "null" ELSE delegateAnswer,
             <<[conn |-> c, event |-> entry.event, listen |-> params.listen = "true"]>>,
             <<>>, <<entry.alias>>)

\* mutant of RequestPath: a handler that cannot be acquired is looked up again
\* and then called
RequestPathRetries(entry, method, params, origin, handlerAvailable, answer) ==
    ResolveOutcome(answer.hresult, answer.response, <<>>,
        <<[method |-> method, params |-> FinalParams(entry, params, origin)]>>,
        IF handlerAvailable THEN <<entry.alias>> ELSE <<entry.alias, entry.alias>>)

\* the request path of Resolve: entry.event is empty
RequestPath(entry, method, params, origin, handlerAvailable, answer) ==
    IF ~handlerAvailable
    THEN ResolveOutcome("ERROR_GENERAL", NotAvailable, <<>>, <<>>, <<entry.alias>>)
    ELSE ResolveOutcome(answer.hresult, answer.response, <<>>,
             <<[method |-> method, params |-> FinalParams(entry, params, origin)]>>,
             <<entry.alias>>)

\* Core::hresult Resolve(context, origin, method, params, resolution /* @out */)
ResolveResult(m, c, origin, method, params, available, answer) ==
    LET found == LookupResolution(m, method) IN
    IF ~found.found
    THEN ResolveOutcome("ERROR_UNKNOWN_KEY", MethodNotFound, <<>>, <<>>, <<>>)
    ELSE IF found.entry.event # ""
    THEN EventPath(found.entry, c, params, available, answer.hresult)
    ELSE RequestPath(found.entry, method, params, origin, available, answer)

NoResolve == [done |-> FALSE]

InitRouterIdle == lastResolve = NoResolve

RECURSIVE LoadAllTable(_, _)
\* the table after LoadConfig of each path of the list, in order
LoadAllTable(m, files) ==
    IF Len(files) = 0 THEN m
    ELSE LoadAllTable(LoadConfigTable(m, files[1]), Tail(files))

\* Configure(paths), called once when the plugin is activated: each path is
\* given to LoadConfig
ConfigureRouter(files) ==
    /\ loadLog = <<>>
    /\ mResolutions' = LoadAllTable(mResolutions, files)
    /\ mConfigured' = (mConfigured \/ \E i \in 1..Len(files) : LoadConfigResult(files[i]))
    /\ loadLog' = loadLog \o files
    /\ loadReturns' = loadReturns \o [i \in 1..Len(files) |-> LoadConfigResult(files[i])]
    /\ lastLookup' = NoLookup
    /\ lastResolve' = NoResolve

\* One Resolve call on the configured router.  available: whether the host
\* framework finds the plugin named by the entry's alias; answer: what that
\* plugin (request handler or event delegate) answers if it is called.
Resolve(c, origin, method, params, available, answer) ==
    /\ mConfigured
    /\ LET found == LookupResolution(mResolutions, method)
           o == ResolveResult(mResolutions, c, origin, method, params, available,
                              answer)
       IN lastResolve' =
            [done |-> TRUE, conn |-> c, origin |-> origin, method |-> method,
             params |-> params, found |-> found.found, entry |-> found.entry,
             available |-> available, answer |-> answer,
             hresult |-> o.hresult, body |-> o.body,
             delegateCalls |-> o.delegateCalls, handlerCalls |-> o.handlerCalls,
             acquired |-> o.acquired]
    /\ UNCHANGED resolverVars

ConfigureRouterStep ==
    \E files \in RouterPathLists :
        ConfigureRouter(files) /\ UNCHANGED <<queryVars, respVars, telemetryVars, otherVars>>

ResolveStep ==
    \E c \in ConnIds, origin \in Origins, method \in RouterMethods,
       params \in RouterParams, available \in BOOLEAN, answer \in HandlerAnswers :
        Resolve(c, origin, method, params, available, answer)
            /\ UNCHANGED <<queryVars, respVars, telemetryVars, otherVars>>

(***************************************************************************)
(* AppGatewayTelemetry (AppGateway/AppGatewayTelemetry.cpp, .h)            *)
(*                                                                         *)
(* The singleton's fields are the fields of the record `telemetry`.  Names *)
(* and keys are std::strings, held as sequences of characters.  Latencies  *)
(* and metric values are the whole numbers of milliseconds (or of units)   *)
(* the callers pass (ScopedApiTimer casts a millisecond count to double),  *)
(* and a quotient of two of them is kept exact, as a numerator and a       *)
(* denominator.  What a Send function hands to SendT2Event is kept as the  *)
(* marker and the JsonObject it built, before FormatTelemetryPayload.      *)
(***************************************************************************)

MaxRecords == 2
MaxThreads == 3

TELEMETRY_DEFAULT_REPORTING_INTERVAL_SEC == 30
TELEMETRY_DEFAULT_CACHE_THRESHOLD == 1000

\* std::numeric_limits<double>::max() and lowest(), the "no sample yet" marks
\* of the minimum and the maximum; they stand above and below every sample
DBL_MAX == 2147483647
DBL_LOWEST == -DBL_MAX

Underscore == <<"_">>

\* "AppGw_PluginName_"
PluginNamePrefix ==
    <<"A", "p", "p", "G", "w", "_", "P", "l", "u", "g", "i", "n", "N", "a",
      "m", "e", "_">>

\* "_MethodName_"
MethodNameTag ==
    <<"_", "M", "e", "t", "h", "o", "d", "N", "a", "m", "e", "_">>

\* "_ApiName_"
ApiNameTag ==
    <<"_", "A", "p", "i", "N", "a", "m", "e", "_">>

\* "_ServiceName_"
ServiceNameTag ==
    <<"_", "S", "e", "r", "v", "i", "c", "e", "N", "a", "m", "e", "_">>

\* "_Success_split"
SuccessSuffix ==
    <<"_", "S", "u", "c", "c", "e", "s", "s", "_", "s", "p", "l", "i", "t">>

\* "_Error_split"
ErrorSuffix ==
    <<"_", "E", "r", "r", "o", "r", "_", "s", "p", "l", "i", "t">>

\* "_ApiLatency_split"
ApiLatencySuffix ==
    <<"_", "A", "p", "i", "L", "a", "t", "e", "n", "c", "y", "_", "s", "p",
      "l", "i", "t">>

\* "_ServiceLatency_split"
ServiceLatencySuffix ==
    <<"_", "S", "e", "r", "v", "i", "c", "e", "L", "a", "t", "e", "n", "c",
      "y", "_", "s", "p", "l", "i", "t">>

\* "_split"
AGW_METRIC_SUFFIX ==
    <<"_", "s", "p", "l", "i", "t">>

\* "AppGwApiErrorCount_"
AGW_METRIC_API_ERROR_COUNT_PREFIX ==
    <<"A", "p", "p", "G", "w", "A", "p", "i", "E", "r", "r", "o", "r", "C",
      "o", "u", "n", "t", "_">>

\* "AppGwExtServiceErrorCount_"
AGW_METRIC_EXT_SERVICE_ERROR_COUNT_PREFIX ==
    <<"A", "p", "p", "G", "w", "E", "x", "t", "S", "e", "r", "v", "i", "c",
      "e", "E", "r", "r", "o", "r", "C", "o", "u", "n", "t", "_">>

\* "AppGwBootstrapDuration_split"
AGW_MARKER_BOOTSTRAP_DURATION ==
    <<"A", "p", "p", "G", "w", "B", "o", "o", "t", "s", "t", "r", "a", "p",
      "D", "u", "r", "a", "t", "i", "o", "n", "_", "s", "p", "l", "i", "t">>

\* "AppGwBootstrapPluginCount_split"
AGW_MARKER_BOOTSTRAP_PLUGIN_COUNT ==
    <<"A", "p", "p", "G", "w", "B", "o", "o", "t", "s", "t", "r", "a", "p",
      "P", "l", "u", "g", "i", "n", "C", "o", "u", "n", "t", "_", "s", "p",
      "l", "i", "t">>

\* "AppGwHealthStats_split"
AGW_MARKER_HEALTH_STATS ==
    <<"A", "p", "p", "G", "w", "H", "e", "a", "l", "t", "h", "S", "t", "a",
      "t", "s", "_", "s", "p", "l", "i", "t">>

\* "AppGwApiMethod_split"
AGW_MARKER_API_METHOD_STAT ==
    <<"A", "p", "p", "G", "w", "A", "p", "i", "M", "e", "t", "h", "o", "d",
      "_", "s", "p", "l", "i", "t">>

\* "AppGwApiLatency_split"
AGW_MARKER_API_LATENCY ==
    <<"A", "p", "p", "G", "w", "A", "p", "i", "L", "a", "t", "e", "n", "c",
      "y", "_", "s", "p", "l", "i", "t">>

\* "AppGwServiceLatency_split"
AGW_MARKER_SERVICE_LATENCY ==
    <<"A", "p", "p", "G", "w", "S", "e", "r", "v", "i", "c", "e", "L", "a",
      "t", "e", "n", "c", "y", "_", "s", "p", "l", "i", "t">>

\* "AppGwServiceMethod_split"
AGW_MARKER_SERVICE_METHOD_STAT ==
    <<"A", "p", "p", "G", "w", "S", "e", "r", "v", "i", "c", "e", "M", "e",
      "t", "h", "o", "d", "_", "s", "p", "l", "i", "t">>

\* "AppGwPluginApiError_split"
AGW_MARKER_PLUGIN_API_ERROR ==
    <<"A", "p", "p", "G", "w", "P", "l", "u", "g", "i", "n", "A", "p", "i",
      "E", "r", "r", "o", "r", "_", "s", "p", "l", "i", "t">>

\* "AppGwPluginExtServiceError_split"
AGW_MARKER_PLUGIN_EXT_SERVICE_ERROR ==
    <<"A", "p", "p", "G", "w", "P", "l", "u", "g", "i", "n", "E", "x", "t",
      "S", "e", "r", "v", "i", "c", "e", "E", "r", "r", "o", "r", "_", "s",
      "p", "l", "i", "t">>

\* "AppGwCustom_split"
CustomEventName ==
    <<"A", "p", "p", "G", "w", "C", "u", "s", "t", "o", "m", "_", "s", "p",
      "l", "i", "t">>

\* "AppGwCpu_split"
GenericMetricName ==
    <<"A", "p", "p", "G", "w", "C", "p", "u", "_", "s", "p", "l", "i", "t">>

\* "ms" and "count"
AGW_UNIT_MILLISECONDS == <<"m", "s">>
AGW_UNIT_COUNT == <<"c", "o", "u", "n", "t">>

\* ---- metric names ------------------------------------------------------

\* the outcome of a Parse*MetricName call: its return value and its outputs
Parsed(ok, pluginName, name, isError) ==
    [ok |-> ok, pluginName |-> pluginName, name |-> name, isError |-> isError]

ParseFailed == Parsed(FALSE, <<>>, <<>>, FALSE)

\* metricName.length() > suffix.length() &&
\* metricName.substr(metricName.length() - suffix.length()) == suffix
HasSuffix(metricName, suffix) ==
    /\ Len(metricName) > Len(suffix)
    /\ SubstrFrom(metricName, Len(metricName) - Len(suffix)) = suffix

\* the part the four parsers share: the prefix check, the middle between the
\* prefix and the suffix, the tag that splits it, the two names
ParseTagged(metricName, suffixLen, tag, isError) ==
    IF \/ Len(metricName) <= Len(PluginNamePrefix)
       \/ Substr(metricName, 0, Len(PluginNamePrefix)) # PluginNamePrefix
    THEN ParseFailed
    ELSE LET count == Len(metricName) - Len(PluginNamePrefix) - suffixLen
             \* the count is a size_t: a negative difference is a huge count
             middle == IF count < 0
                       THEN SubstrFrom(metricName, Len(PluginNamePrefix))
                       ELSE Substr(metricName, Len(PluginNamePrefix), count)
             tagPos == Find(middle, tag)
         IN  IF tagPos = NPOS \/ tagPos = 0 THEN ParseFailed
             ELSE LET pluginName == Substr(middle, 0, tagPos)
                      name == SubstrFrom(middle, tagPos + Len(tag))
                  IN  IF pluginName = <<>> \/ name = <<>> THEN ParseFailed
                      ELSE Parsed(TRUE, pluginName, name, isError)

ParseApiMetricName(metricName) ==
    IF HasSuffix(metricName, SuccessSuffix)
    THEN ParseTagged(metricName, Len(SuccessSuffix), MethodNameTag, FALSE)
    ELSE IF HasSuffix(metricName, ErrorSuffix)
    THEN ParseTagged(metricName, Len(ErrorSuffix), MethodNameTag, TRUE)
    ELSE ParseFailed

\* mutant of ParseServiceMetricName: no name is a service-method name
ParseServiceMetricNameNever(metricName) == ParseFailed

ParseServiceMetricName(metricName) ==
    IF HasSuffix(metricName, SuccessSuffix)
    THEN ParseTagged(metricName, Len(SuccessSuffix), ServiceNameTag, FALSE)
    ELSE IF HasSuffix(metricName, ErrorSuffix)
    THEN ParseTagged(metricName, Len(ErrorSuffix), ServiceNameTag, TRUE)
    ELSE ParseFailed

ParseApiLatencyMetricName(metricName) ==
    IF HasSuffix(metricName, ApiLatencySuffix)
    THEN ParseTagged(metricName, Len(ApiLatencySuffix), ApiNameTag, FALSE)
    ELSE ParseFailed

ParseServiceLatencyMetricName(metricName) ==
    IF HasSuffix(metricName, ServiceLatencySuffix)
    THEN ParseTagged(metricName, Len(ServiceLatencySuffix), ServiceNameTag, FALSE)
    ELSE ParseFailed

\* the names the telemetry client builds (helpers/UtilsAppGatewayTelemetry.h)
ApiMetricName(pluginName, methodName, isError) ==
    PluginNamePrefix \o pluginName \o MethodNameTag \o methodName
        \o (IF isError THEN ErrorSuffix ELSE SuccessSuffix)

ServiceMetricName(pluginName, serviceName, isError) ==
    PluginNamePrefix \o pluginName \o ServiceNameTag \o serviceName
        \o (IF isError THEN ErrorSuffix ELSE SuccessSuffix)

ApiLatencyMetricName(pluginName, apiName) ==
    PluginNamePrefix \o pluginName \o ApiNameTag \o apiName \o ApiLatencySuffix

ServiceLatencyMetricName(pluginName, serviceName) ==
    PluginNamePrefix \o pluginName \o ServiceNameTag \o serviceName
        \o ServiceLatencySuffix

\* ---- aggregates --------------------------------------------------------

\* if (v < cur) cur = v
MinSample(cur, v) == IF v < cur THEN v ELSE cur

\* mutant of MaxSample: the maximum is never raised
MaxSampleStale(cur, v) == cur

\* if (v > cur) cur = v
MaxSample(cur, v) == IF v > cur THEN v ELSE cur

\* a default-constructed MetricData
NewMetricData ==
    [sum |-> 0, min |-> DBL_MAX, max |-> DBL_LOWEST, count |-> 0, unit |-> <<>>]

\* a default-constructed ApiMethodStats
NewApiMethodStats ==
    [pluginName |-> <<>>, methodName |-> <<>>,
     successCount |-> 0, errorCount |-> 0,
     totalSuccessLatencyMs |-> 0, totalErrorLatencyMs |-> 0,
     minSuccessLatencyMs |-> DBL_MAX, maxSuccessLatencyMs |-> DBL_LOWEST,
     minErrorLatencyMs |-> DBL_MAX, maxErrorLatencyMs |-> DBL_LOWEST]

\* a default-constructed ApiLatencyStats
NewApiLatencyStats ==
    [pluginName |-> <<>>, apiName |-> <<>>, count |-> 0, totalLatencyMs |-> 0,
     minLatencyMs |-> DBL_MAX, maxLatencyMs |-> DBL_LOWEST]

\* a default-constructed ServiceLatencyStats
NewServiceLatencyStats ==
    [pluginName |-> <<>>, serviceName |-> <<>>, count |-> 0, totalLatencyMs |-> 0,
     minLatencyMs |-> DBL_MAX, maxLatencyMs |-> DBL_LOWEST]

\* a default-constructed ServiceMethodStats
NewServiceMethodStats ==
    [pluginName |-> <<>>, serviceName |-> <<>>,
     successCount |-> 0, errorCount |-> 0,
     totalSuccessLatencyMs |-> 0, totalErrorLatencyMs |-> 0,
     minSuccessLatencyMs |-> DBL_MAX, maxSuccessLatencyMs |-> DBL_LOWEST,
     minErrorLatencyMs |-> DBL_MAX, maxErrorLatencyMs |-> DBL_LOWEST]

\* map[key] of a std::map: the element, default-constructed when absent
At(m, key, fresh) == IF key \in DOMAIN m THEN m[key] ELSE fresh

\* the success or the error side of a method stat after one more sample
WithErrorSample(stats, latencyMs) ==
    [stats EXCEPT !.errorCount = @ + 1,
                  !.totalErrorLatencyMs = @ + latencyMs,
                  !.minErrorLatencyMs = MinSample(@, latencyMs),
                  !.maxErrorLatencyMs = MaxSample(@, latencyMs)]

WithSuccessSample(stats, latencyMs) ==
    [stats EXCEPT !.successCount = @ + 1,
                  !.totalSuccessLatencyMs = @ + latencyMs,
                  !.minSuccessLatencyMs = MinSample(@, latencyMs),
                  !.maxSuccessLatencyMs = MaxSample(@, latencyMs)]

WithLatencySample(stats, latencyMs) ==
    [stats EXCEPT !.count = @ + 1,
                  !.totalLatencyMs = @ + latencyMs,
                  !.minLatencyMs = MinSample(@, latencyMs),
                  !.maxLatencyMs = MaxSample(@, latencyMs)]

\* mutant of BumpCount: an error occurrence lowers the counter
BumpCountDown(m, name) == MapPut(m, name, At(m, name, 0) - 1)

\* map[name]++
BumpCount(m, name) == MapPut(m, name, At(m, name, 0) + 1)

\* Each function below takes the singleton t and gives it back as the call
\* leaves it.

RecordApiError(t, apiName) ==
    [t EXCEPT !.mApiErrorCounts = BumpCount(@, apiName)]

RecordExternalServiceErrorInternal(t, serviceName) ==
    [t EXCEPT !.mExternalServiceErrorCounts = BumpCount(@, serviceName)]

RecordApiMethodMetric(t, pluginName, methodName, latencyMs, isError) ==
    LET apiKey == pluginName \o Underscore \o methodName
        found == At(t.mApiMethodStats, apiKey, NewApiMethodStats)
        named == IF found.pluginName = <<>>
                 THEN [found EXCEPT !.pluginName = pluginName,
                                    !.methodName = methodName]
                 ELSE found
        stats == IF isError THEN WithErrorSample(named, latencyMs)
                 ELSE WithSuccessSample(named, latencyMs)
    IN  [t EXCEPT !.mApiMethodStats = MapPut(@, apiKey, stats),
                  !.mCachedEventCount = @ + 1]

RecordApiLatencyMetric(t, pluginName, apiName, latencyMs) ==
    LET latencyKey == pluginName \o Underscore \o apiName
        found == At(t.mApiLatencyStats, latencyKey, NewApiLatencyStats)
        named == IF found.pluginName = <<>>
                 THEN [found EXCEPT !.pluginName = pluginName, !.apiName = apiName]
                 ELSE found
    IN  [t EXCEPT !.mApiLatencyStats =
                      MapPut(@, latencyKey, WithLatencySample(named, latencyMs)),
                  !.mCachedEventCount = @ + 1]

RecordServiceLatencyMetric(t, pluginName, serviceName, latencyMs) ==
    LET latencyKey == pluginName \o Underscore \o serviceName
        found == At(t.mServiceLatencyStats, latencyKey, NewServiceLatencyStats)
        named == IF found.pluginName = <<>>
                 THEN [found EXCEPT !.pluginName = pluginName,
                                    !.serviceName = serviceName]
                 ELSE found
    IN  [t EXCEPT !.mServiceLatencyStats =
                      MapPut(@, latencyKey, WithLatencySample(named, latencyMs)),
                  !.mCachedEventCount = @ + 1]

RecordServiceMethodMetric(t, pluginName, serviceName, latencyMs, isError) ==
    LET serviceKey == pluginName \o Underscore \o serviceName
        found == At(t.mServiceMethodStats, serviceKey, NewServiceMethodStats)
        named == IF found.pluginName = <<>>
                 THEN [found EXCEPT !.pluginName = pluginName,
                                    !.serviceName = serviceName]
                 ELSE found
        stats == IF isError THEN WithErrorSample(named, latencyMs)
                 ELSE WithSuccessSample(named, latencyMs)
    IN  [t EXCEPT !.mServiceMethodStats = MapPut(@, serviceKey, stats),
                  !.mCachedEventCount = @ + 1]

RecordGenericMetric(t, metricName, metricValue, metricUnit) ==
    LET found == At(t.mMetricsCache, metricName, NewMetricData)
        data == [found EXCEPT !.sum = @ + metricValue,
                              !.count = @ + 1,
                              !.min = MinSample(@, metricValue),
                              !.max = MaxSample(@, metricValue),
                              !.unit = IF @ = <<>> THEN metricUnit ELSE @]
    IN  [t EXCEPT !.mMetricsCache = MapPut(@, metricName, data),
                  !.mCachedEventCount = @ + 1]

\* ---- flush --------------------------------------------------------------

\* one SendT2Event call: the marker and the payload object it was built from
T2Event(marker, payload) == [marker |-> marker, payload |-> payload]

\* the bag of the events F(k) sent for the keys k of a map iteration
SentFor(keys, F(_)) ==
    [e \in {F(k) : k \in keys} |-> Cardinality({k \in keys : F(k) = e})]

\* total / count, kept exact
Quotient(total, count) == [num |-> total, den |-> count]

\* (min == numeric_limits<double>::max()) ? 0.0 : min
ReportedMin(min) == IF min = DBL_MAX THEN 0 ELSE min

\* (max == numeric_limits<double>::lowest()) ? 0.0 : max
ReportedMax(max) == IF max = DBL_LOWEST THEN 0 ELSE max

\* SendHealthStats after its four loads: h holds the locals wsConnections,
\* totalCalls, successfulCalls and failedCalls
SendHealthStats(t, h) ==
        IF h.totalCalls = 0 /\ h.websocketConnections = 0 THEN EmptyBag
        ELSE SetToBag({T2Event(AGW_MARKER_HEALTH_STATS,
                 [reporting_interval_sec |-> t.mReportingIntervalSec,
                  websocket_connections |-> h.websocketConnections,
                  total_calls |-> h.totalCalls,
                  successful_calls |-> h.successfulCalls,
                  failed_calls |-> h.failedCalls,
                  unit |-> AGW_UNIT_COUNT])})

\* mutant of ErrorCountPayload: every counter is reported as one occurrence
ErrorCountPayloadOnce(t, n) ==
    [reporting_interval_sec |-> t.mReportingIntervalSec, sum |-> 1, count |-> 1,
     unit |-> AGW_UNIT_COUNT]

\* the payload object of one error counter
ErrorCountPayload(t, n) ==
    [reporting_interval_sec |-> t.mReportingIntervalSec, sum |-> n, count |-> 1,
     unit |-> AGW_UNIT_COUNT]

SendApiErrorStats(t) ==
    LET Event(name) ==
            T2Event(AGW_METRIC_API_ERROR_COUNT_PREFIX \o name \o AGW_METRIC_SUFFIX,
                    ErrorCountPayload(t, t.mApiErrorCounts[name]))
    IN  SentFor(DOMAIN t.mApiErrorCounts, Event)

SendExternalServiceErrorStats(t) ==
    LET Event(name) ==
            T2Event(AGW_METRIC_EXT_SERVICE_ERROR_COUNT_PREFIX \o name
                        \o AGW_METRIC_SUFFIX,
                    ErrorCountPayload(t, t.mExternalServiceErrorCounts[name]))
    IN  SentFor(DOMAIN t.mExternalServiceErrorCounts, Event)

SendAggregatedMetrics(t) ==
    LET Event(name) ==
            LET data == t.mMetricsCache[name]
            IN  T2Event(name,
                    [sum |-> data.sum, min |-> ReportedMin(data.min),
                     max |-> ReportedMax(data.max), count |-> data.count,
                     avg |-> Quotient(data.sum, data.count), unit |-> data.unit,
                     reporting_interval_sec |-> t.mReportingIntervalSec])
    IN  SentFor({name \in DOMAIN t.mMetricsCache : t.mMetricsCache[name].count # 0},
                Event)

\* the success and the error members of a method-stat payload
SuccessMembers(stats) ==
    IF stats.successCount > 0
    THEN [success_count |-> stats.successCount,
          success_latency_avg_ms |->
              Quotient(stats.totalSuccessLatencyMs, stats.successCount),
          success_latency_min_ms |-> ReportedMin(stats.minSuccessLatencyMs),
          success_latency_max_ms |-> ReportedMax(stats.maxSuccessLatencyMs)]
    ELSE [success_count |-> 0]

ErrorMembers(stats) ==
    IF stats.errorCount > 0
    THEN [error_count |-> stats.errorCount,
          error_latency_avg_ms |->
              Quotient(stats.totalErrorLatencyMs, stats.errorCount),
          error_latency_min_ms |-> ReportedMin(stats.minErrorLatencyMs),
          error_latency_max_ms |-> ReportedMax(stats.maxErrorLatencyMs)]
    ELSE [error_count |-> 0]

SendApiMethodStats(t) ==
    LET Event(key) ==
            LET stats == t.mApiMethodStats[key]
            IN  T2Event(AGW_MARKER_API_METHOD_STAT,
                    [plugin_name |-> stats.pluginName,
                     method_name |-> stats.methodName,
                     reporting_interval_sec |-> t.mReportingIntervalSec,
                     total_count |-> stats.successCount + stats.errorCount]
                    @@ SuccessMembers(stats) @@ ErrorMembers(stats))
    IN  SentFor({key \in DOMAIN t.mApiMethodStats :
                    ~(t.mApiMethodStats[key].successCount = 0
                      /\ t.mApiMethodStats[key].errorCount = 0)}, Event)

SendServiceMethodStats(t) ==
    LET Event(key) ==
            LET stats == t.mServiceMethodStats[key]
            IN  T2Event(AGW_MARKER_SERVICE_METHOD_STAT,
                    [plugin_name |-> stats.pluginName,
                     service_name |-> stats.serviceName,
                     reporting_interval_sec |-> t.mReportingIntervalSec,
                     total_count |-> stats.successCount + stats.errorCount]
                    @@ SuccessMembers(stats) @@ ErrorMembers(stats))
    IN  SentFor({key \in DOMAIN t.mServiceMethodStats :
                    ~(t.mServiceMethodStats[key].successCount = 0
                      /\ t.mServiceMethodStats[key].errorCount = 0)}, Event)

\* the members the two latency payloads share
LatencyMembers(t, stats) ==
    [reporting_interval_sec |-> t.mReportingIntervalSec,
     count |-> stats.count,
     avg_ms |-> Quotient(stats.totalLatencyMs, stats.count),
     min_ms |-> ReportedMin(stats.minLatencyMs),
     max_ms |-> ReportedMax(stats.maxLatencyMs),
     total_ms |-> stats.totalLatencyMs,
     unit |-> AGW_UNIT_MILLISECONDS]

SendApiLatencyStats(t) ==
    LET Event(key) ==
            LET stats == t.mApiLatencyStats[key]
            IN  T2Event(AGW_MARKER_API_LATENCY,
                    [plugin_name |-> stats.pluginName, api_name |-> stats.apiName]
                    @@ LatencyMembers(t, stats))
    IN  SentFor({key \in DOMAIN t.mApiLatencyStats :
                    t.mApiLatencyStats[key].count # 0}, Event)

SendServiceLatencyStats(t) ==
    LET Event(key) ==
            LET stats == t.mServiceLatencyStats[key]
            IN  T2Event(AGW_MARKER_SERVICE_LATENCY,
                    [plugin_name |-> stats.pluginName,
                     service_name |-> stats.serviceName]
                    @@ LatencyMembers(t, stats))
    IN  SentFor({key \in DOMAIN t.mServiceLatencyStats :
                    t.mServiceLatencyStats[key].count # 0}, Event)

\* the atomics SendHealthStats loads, in the order of its loads
HealthLoads ==
    <<"websocketConnections", "totalCalls", "successfulCalls", "failedCalls">>

\* the atomics ResetHealthStats stores 0 to, in the order of its stores
HealthStores == <<"totalCalls", "successfulCalls", "failedCalls">>

\* mutant of ResetHealthStats: the gauge is reset with the counters
ResetHealthStatsAndGauge(h, n) ==
    [h EXCEPT ![HealthStores[n]] = 0, !.websocketConnections = 0]

\* the n-th store of ResetHealthStats: the three interval counters go back
\* to 0 one after the other; the gauge keeps its value
ResetHealthStats(h, n) == [h EXCEPT ![HealthStores[n]] = 0]

\* everything one FlushTelemetryData call sends, in a bag; h holds what
\* SendHealthStats loaded
FlushSends(t, h) ==
    SendHealthStats(t, h) (+) SendApiMethodStats(t) (+) SendApiLatencyStats(t)
        (+) SendServiceLatencyStats(t) (+) SendServiceMethodStats(t)
        (+) SendApiErrorStats(t) (+) SendExternalServiceErrorStats(t)
        (+) SendAggregatedMetrics(t)

\* the singleton as the Reset* calls of FlushTelemetryData that follow
\* ResetHealthStats leave it
FlushTelemetryData(t) ==
    [t EXCEPT !.mApiMethodStats = EmptyMap,
              !.mApiLatencyStats = EmptyMap,
              !.mServiceLatencyStats = EmptyMap,
              !.mServiceMethodStats = EmptyMap,
              !.mApiErrorCounts = EmptyMap,
              !.mExternalServiceErrorCounts = EmptyMap,
              !.mMetricsCache = EmptyMap,
              !.mCachedEventCount = 0]

\* ---- the unsigned 32-bit gauge -----------------------------------------

\* A std::atomic<uint32_t> is held by its two's-complement reading, which
\* keeps every value inside the integers TLC handles: the values 0 .. 2^31-1
\* are themselves, and the values 2^31 .. 2^32-1 are -2^31 .. -1, so that
\* 4294967295, which fetch_sub(1) leaves in a gauge at 0, is -1.

\* v.fetch_add(1)
FetchAdd(v) == v + 1

\* v.fetch_sub(1), wrapping below zero
FetchSub(v) == v - 1

\* current > 0, as an unsigned comparison
Positive(v) == v # 0

\* the gauge holds a value a count of open connections cannot have
Wrapped(v) == v < 0

\* ---- state ---------------------------------------------------------------

Threads == 1..MaxThreads

HealthStats(ws, total, ok, failed) ==
    [websocketConnections |-> ws, totalCalls |-> total, successfulCalls |-> ok,
     failedCalls |-> failed]

\* the telemetry call of the most recent step and what it did
TelEvent(op, flushes, schedules, revokes, sent, samples, hresult) ==
    [op |-> op, flushes |-> flushes, schedules |-> schedules,
     revokes |-> revokes, sent |-> sent, samples |-> samples,
     hresult |-> hresult]

\* a call that neither flushed nor touched the timer nor sent anything
Quiet(op) == TelEvent(op, 0, 0, 0, EmptyBag, EmptyBag, ERROR_NONE)

\* one sample recorded into the API-method map
ApiSample(pluginName, methodName, isError, latencyMs) ==
    [pluginName |-> pluginName, methodName |-> methodName, isError |-> isError,
     latencyMs |-> latencyMs]

\* a thread inside a RecordTelemetryEvent, RecordTelemetryMetric or
\* RecordBootstrapTime call: pc names the last statement it completed
\* ("tested": mInitialized read as true; "counted": the error of an error
\* event counted; "recorded": the cache updated; "flush": about to call
\* FlushTelemetryData; "plugins", "total",
\* "duration": inside RecordBootstrapTime), pluginCount and totalTime are
\* the locals of RecordBootstrapTime
Admitted(op, pc, name, data, value) ==
    [op |-> op, pc |-> pc, name |-> name, data |-> data, value |-> value,
     pluginCount |-> 0, totalTime |-> 0]

\* a thread that is in no such call
NoCall == Admitted("none", "idle", <<>>, EmptyMap, 0)

\* the gauge and the bootstrap totals of the singleton
KeptOf(t) ==
    [websocketConnections |-> t.mHealthStats.websocketConnections,
     mBootstrapPluginsLoaded |-> t.mBootstrapPluginsLoaded,
     mTotalBootstrapTimeMs |-> t.mTotalBootstrapTimeMs]

\* the thread that holds mAdminLock across statements: inside
\* FlushTelemetryData, in SendHealthStats with `at` of its loads done
\* ("loading") or past the Send* calls with `at` of the stores of
\* ResetHealthStats done ("storing"), or back in Deinitialize after its
\* FlushTelemetryData ("reset"); op is the public call it is in, thread the
\* caller when that is a RecordTelemetry* call (0 otherwise), revokes what
\* that call revoked, loaded the locals of SendHealthStats, sent what the
\* Send* calls sent, samples the samples of the interval and entry the gauge
\* and the bootstrap totals as FlushTelemetryData found them
Flushing(pc, op, thread, revokes, sent, samples) ==
    [pc |-> pc, op |-> op, thread |-> thread, revokes |-> revokes, sent |-> sent,
     samples |-> samples, at |-> 0, loaded |-> HealthStats(0, 0, 0, 0),
     entry |-> [websocketConnections |-> 0, mBootstrapPluginsLoaded |-> 0,
                mTotalBootstrapTimeMs |-> 0]]

\* the thread has taken mAdminLock in FlushTelemetryData of the singleton t
Entered(op, thread, revokes, t) ==
    [Flushing("loading", op, thread, revokes, EmptyBag, EmptyBag)
        EXCEPT !.entry = KeptOf(t)]

NotFlushing == Flushing("idle", "none", 0, 0, EmptyBag, EmptyBag)

\* mAdminLock is held from one step to a later one
Locked == flushing.pc # "idle"

\* the threads that are inside a call of the aggregator; expiring is the
\* timer thread: idle, inside OnTimerExpired before its FlushTelemetryData
\* ("expired"), or after it and before the lock is taken again ("flushed")
callerVars == <<decrementing, admitted, flushing, expiring>>

\* the singleton after its constructor
InitTelemetry ==
    /\ telemetry =
           [mInitialized |-> FALSE, mTimerRunning |-> FALSE, mTimerHandler |-> 0,
            mReportingIntervalSec |-> TELEMETRY_DEFAULT_REPORTING_INTERVAL_SEC,
            mCacheThreshold |-> TELEMETRY_DEFAULT_CACHE_THRESHOLD,
            mCachedEventCount |-> 0,
            mHealthStats |-> HealthStats(0, 0, 0, 0),
            mBootstrapPluginsLoaded |-> 0, mTotalBootstrapTimeMs |-> 0,
            mApiMethodStats |-> EmptyMap, mApiLatencyStats |-> EmptyMap,
            mServiceLatencyStats |-> EmptyMap, mServiceMethodStats |-> EmptyMap,
            mApiErrorCounts |-> EmptyMap,
            mExternalServiceErrorCounts |-> EmptyMap,
            mMetricsCache |-> EmptyMap]
    /\ lifecycle = "Uninitialized"
    /\ apiSamples = EmptyBag
    /\ telEvent = Quiet("none")
    /\ decrementing = [t \in Threads |-> [pc |-> "idle", current |-> 0]]
    /\ admitted = [thread \in Callers |-> NoCall]
    /\ flushing = NotFlushing
    /\ expiring = "idle"

\* ---- the timer -----------------------------------------------------------

\* mTimerHandler holds the number of pending entries of mTimer

\* mTimerHandler.Schedule(..., *mTimer)
Schedule(pending) == pending + 1

\* mutant of Revoke: the pending entry stays
RevokeNothing(pending) == pending

\* mTimerHandler.Revoke(*mTimer)
Revoke(pending) == 0

\* ---- calls ---------------------------------------------------------------
\* Each action is one region of a call that other threads cannot enter: the
\* statements run under mAdminLock, or one atomic operation, or one read
\* outside the lock.  telEvent is written by the step that ends a call or a
\* flush; a step in the middle of a call writes Quiet("none").

\* a step that ends a call which did not flush
NoFlush(op) == telEvent' = Quiet(op) /\ UNCHANGED <<lifecycle, apiSamples>>

\* a step in the middle of a call
Midway == telEvent' = Quiet("none") /\ UNCHANGED <<lifecycle, apiSamples>>

Initialize ==
    /\ ~Locked
    /\ IF telemetry.mInitialized
       THEN /\ UNCHANGED <<telemetry, lifecycle>>
            /\ telEvent' = Quiet("Initialize")
       ELSE /\ telemetry' =
                 [telemetry EXCEPT
                     !.mTimerHandler =
                         IF ~telemetry.mTimerRunning THEN Schedule(@) ELSE @,
                     !.mTimerRunning = TRUE,
                     !.mInitialized = TRUE]
            /\ lifecycle' = "Initialized"
            /\ telEvent' =
                 TelEvent("Initialize", 0,
                          IF ~telemetry.mTimerRunning THEN 1 ELSE 0, 0,
                          EmptyBag, EmptyBag, ERROR_NONE)
    /\ UNCHANGED <<apiSamples, callerVars>>

\* Deinitialize from taking mAdminLock to its call of FlushTelemetryData: it
\* returns at once when not initialized, else the timer is revoked
DeinitializeRevoke ==
    /\ ~Locked
    /\ IF ~telemetry.mInitialized
       THEN /\ UNCHANGED <<telemetry, flushing>>
            /\ NoFlush("Deinitialize")
       ELSE LET stopped ==
                    [telemetry EXCEPT
                        !.mTimerHandler =
                            IF telemetry.mTimerRunning THEN Revoke(@) ELSE @,
                        !.mTimerRunning = FALSE]
            IN  /\ telemetry' = stopped
                /\ flushing' =
                       Entered("Deinitialize", 0,
                               IF telemetry.mTimerRunning THEN 1 ELSE 0, stopped)
                /\ Midway
    /\ UNCHANGED <<decrementing, admitted, expiring>>

\* Deinitialize after its FlushTelemetryData: mInitialized = false, and
\* mAdminLock is released
DeinitializeReturn ==
    /\ flushing.pc = "reset"
    /\ telemetry' = [telemetry EXCEPT !.mInitialized = FALSE]
    /\ lifecycle' = "Deinitialized"
    /\ telEvent' = TelEvent("Deinitialize", 1, 0, flushing.revokes, flushing.sent,
                            flushing.samples, ERROR_NONE)
    /\ flushing' = NotFlushing
    /\ UNCHANGED <<apiSamples, decrementing, admitted, expiring>>

SetReportingInterval(intervalSec) ==
    /\ ~Locked
    /\ telemetry' =
           [telemetry EXCEPT
               !.mReportingIntervalSec = intervalSec,
               !.mTimerHandler =
                   IF telemetry.mTimerRunning THEN Schedule(Revoke(@)) ELSE @]
    /\ telEvent' = TelEvent("SetReportingInterval", 0,
                            IF telemetry.mTimerRunning THEN 1 ELSE 0,
                            IF telemetry.mTimerRunning THEN 1 ELSE 0,
                            EmptyBag, EmptyBag, ERROR_NONE)
    /\ UNCHANGED <<lifecycle, apiSamples, callerVars>>

SetCacheThreshold(threshold) ==
    /\ ~Locked
    /\ telemetry' = [telemetry EXCEPT !.mCacheThreshold = threshold]
    /\ NoFlush("SetCacheThreshold")
    /\ UNCHANGED callerVars

\* the thread is about to call FlushTelemetryData as part of op: a caller of
\* FlushTelemetryData itself or the timer thread (thread 0), or a caller
\* that saw the cache threshold reached
AboutToFlush(op, thread) ==
    CASE op = "FlushTelemetryData" -> thread = 0
      [] op = "OnTimerExpired" -> thread = 0 /\ expiring = "expired"
      [] OTHER -> /\ thread \in Callers
                  /\ admitted[thread].op = op
                  /\ admitted[thread].pc = "flush"

\* FlushTelemetryData takes mAdminLock
FlushLock(op, thread) ==
    /\ ~Locked
    /\ AboutToFlush(op, thread)
    /\ flushing' = Entered(op, thread, 0, telemetry)
    /\ Midway
    /\ UNCHANGED <<telemetry, decrementing, admitted, expiring>>

\* SendHealthStats: the next of its four relaxed loads.  The atomics are
\* written without mAdminLock, so each load is a step of its own.
SendHealthStatsLoad ==
    /\ flushing.pc = "loading"
    /\ flushing.at < Len(HealthLoads)
    /\ LET counter == HealthLoads[flushing.at + 1]
       IN  flushing' = [flushing EXCEPT
                           !.at = @ + 1,
                           !.loaded[counter] = telemetry.mHealthStats[counter]]
    /\ Midway
    /\ UNCHANGED <<telemetry, decrementing, admitted, expiring>>

\* the rest of SendHealthStats, which sends what it loaded, and the seven
\* Send* calls after it, which read what mAdminLock protects
FlushSend ==
    /\ flushing.pc = "loading"
    /\ flushing.at = Len(HealthLoads)
    /\ flushing' = [flushing EXCEPT
                       !.pc = "storing", !.at = 0,
                       !.sent = FlushSends(telemetry, flushing.loaded),
                       !.samples = apiSamples,
                       !.loaded = HealthStats(0, 0, 0, 0)]
    /\ Midway
    /\ UNCHANGED <<telemetry, decrementing, admitted, expiring>>

\* ResetHealthStats: the next of its three relaxed stores, each a step of
\* its own as the loads are
ResetHealthStatsStore ==
    /\ flushing.pc = "storing"
    /\ flushing.at < Len(HealthStores)
    /\ telemetry' = [telemetry EXCEPT
                        !.mHealthStats = ResetHealthStats(@, flushing.at + 1)]
    /\ flushing' = [flushing EXCEPT !.at = @ + 1]
    /\ Midway
    /\ UNCHANGED <<decrementing, admitted, expiring>>

\* FlushTelemetryData runs the Reset* calls after ResetHealthStats and
\* returns: to Deinitialize, which keeps mAdminLock and is reported when it
\* returns, or to a caller that has nothing left to do but the timer
\* thread's rescheduling
FlushReset ==
    /\ flushing.pc = "storing"
    /\ flushing.at = Len(HealthStores)
    /\ telemetry' = FlushTelemetryData(telemetry)
    /\ apiSamples' = EmptyBag
    /\ telEvent' = TelEvent(IF flushing.op = "Deinitialize"
                            THEN "FlushTelemetryData" ELSE flushing.op,
                            1, 0, 0, flushing.sent, flushing.samples, ERROR_NONE)
    /\ flushing' = IF flushing.op = "Deinitialize"
                   THEN [flushing EXCEPT !.pc = "reset", !.at = 0]
                   ELSE NotFlushing
    /\ expiring' = IF flushing.op = "OnTimerExpired" THEN "flushed" ELSE expiring
    /\ admitted' = IF flushing.thread \in Callers
                   THEN [admitted EXCEPT ![flushing.thread] = NoCall]
                   ELSE admitted
    /\ UNCHANGED <<lifecycle, decrementing>>

\* the timer thread takes a pending entry of mTimer and enters OnTimerExpired
TimerExpire ==
    /\ expiring = "idle"
    /\ telemetry.mTimerHandler > 0
    /\ expiring' = "expired"
    /\ telemetry' = [telemetry EXCEPT !.mTimerHandler = @ - 1]
    /\ Midway
    /\ UNCHANGED <<decrementing, admitted, flushing>>

\* OnTimerExpired after its FlushTelemetryData: mAdminLock is taken again and
\* the timer scheduled if mTimerRunning && mInitialized
OnTimerExpiredReschedule ==
    /\ ~Locked
    /\ expiring = "flushed"
    /\ LET again == telemetry.mTimerRunning /\ telemetry.mInitialized
       IN  /\ telemetry' =
                  [telemetry EXCEPT
                      !.mTimerHandler = IF again THEN Schedule(@) ELSE @]
           /\ telEvent' = TelEvent("OnTimerExpired", 0, IF again THEN 1 ELSE 0, 0,
                                   EmptyBag, EmptyBag, ERROR_NONE)
    /\ expiring' = "idle"
    /\ UNCHANGED <<lifecycle, apiSamples, decrementing, admitted, flushing>>

IncrementWebSocketConnections ==
    /\ telemetry' =
           [telemetry EXCEPT !.mHealthStats.websocketConnections = FetchAdd(@)]
    /\ NoFlush("IncrementWebSocketConnections")
    /\ UNCHANGED callerVars

\* thread t: current = websocketConnections.load()
DecrementLoad(t) ==
    /\ decrementing[t].pc = "idle"
    /\ decrementing' =
           [decrementing EXCEPT
               ![t] = [pc |-> "loaded",
                       current |-> telemetry.mHealthStats.websocketConnections]]
    /\ Midway
    /\ UNCHANGED <<telemetry, admitted, flushing, expiring>>

\* thread t: if (current > 0) websocketConnections.fetch_sub(1), and return
DecrementFetchSub(t) ==
    /\ decrementing[t].pc = "loaded"
    /\ telemetry' =
           [telemetry EXCEPT
               !.mHealthStats.websocketConnections =
                   IF Positive(decrementing[t].current) THEN FetchSub(@) ELSE @]
    /\ decrementing' = [decrementing EXCEPT ![t] = [pc |-> "idle", current |-> 0]]
    /\ NoFlush("DecrementWebSocketConnections")
    /\ UNCHANGED <<admitted, flushing, expiring>>

IncrementTotalCalls ==
    /\ telemetry' = [telemetry EXCEPT !.mHealthStats.totalCalls = FetchAdd(@)]
    /\ NoFlush("IncrementTotalCalls")
    /\ UNCHANGED callerVars

IncrementSuccessfulCalls ==
    /\ telemetry' = [telemetry EXCEPT !.mHealthStats.successfulCalls = FetchAdd(@)]
    /\ NoFlush("IncrementSuccessfulCalls")
    /\ UNCHANGED callerVars

IncrementFailedCalls ==
    /\ telemetry' = [telemetry EXCEPT !.mHealthStats.failedCalls = FetchAdd(@)]
    /\ NoFlush("IncrementFailedCalls")
    /\ UNCHANGED callerVars

RecordApiErrorCall(apiName) ==
    /\ ~Locked
    /\ telemetry' = RecordApiError(telemetry, apiName)
    /\ NoFlush("RecordApiError")
    /\ UNCHANGED callerVars

RecordExternalServiceErrorInternalCall(serviceName) ==
    /\ ~Locked
    /\ telemetry' = RecordExternalServiceErrorInternal(telemetry, serviceName)
    /\ NoFlush("RecordExternalServiceErrorInternal")
    /\ UNCHANGED callerVars

\* ---- RecordBootstrapTime ---------------------------------------------------

\* pluginCount = mBootstrapPluginsLoaded.fetch_add(1) + 1, by the call `call`
\* of the thread
BootstrapPluginsLoaded(thread, call) ==
    /\ telemetry' = [telemetry EXCEPT !.mBootstrapPluginsLoaded = @ + 1]
    /\ admitted' =
           [admitted EXCEPT ![thread] =
               [call EXCEPT !.pc = "plugins",
                            !.pluginCount = telemetry.mBootstrapPluginsLoaded + 1]]
    /\ Midway
    /\ UNCHANGED <<decrementing, flushing, expiring>>

\* a thread enters RecordBootstrapTime: the first fetch_add
RecordBootstrapTimePlugins(thread, durationMs) ==
    /\ admitted[thread] = NoCall
    /\ BootstrapPluginsLoaded(
           thread,
           Admitted("RecordBootstrapTime", "entered", <<>>, EmptyMap, durationMs))

\* totalTime = mTotalBootstrapTimeMs.fetch_add(durationMs) + durationMs
RecordBootstrapTimeTotal(thread) ==
    /\ admitted[thread].pc = "plugins"
    /\ telemetry' = [telemetry EXCEPT
                         !.mTotalBootstrapTimeMs = @ + admitted[thread].value]
    /\ admitted' =
           [admitted EXCEPT
               ![thread].pc = "total",
               ![thread].totalTime =
                   telemetry.mTotalBootstrapTimeMs + admitted[thread].value]
    /\ Midway
    /\ UNCHANGED <<decrementing, flushing, expiring>>

\* RecordGenericMetric(AGW_MARKER_BOOTSTRAP_DURATION, totalTime, ms)
RecordBootstrapTimeDuration(thread) ==
    /\ ~Locked
    /\ admitted[thread].pc = "total"
    /\ telemetry' = RecordGenericMetric(telemetry, AGW_MARKER_BOOTSTRAP_DURATION,
                                        admitted[thread].totalTime,
                                        AGW_UNIT_MILLISECONDS)
    /\ admitted' = [admitted EXCEPT ![thread].pc = "duration"]
    /\ Midway
    /\ UNCHANGED <<decrementing, flushing, expiring>>

\* RecordGenericMetric(AGW_MARKER_BOOTSTRAP_PLUGIN_COUNT, pluginCount, count),
\* and the call returns
RecordBootstrapTimeCount(thread) ==
    /\ ~Locked
    /\ admitted[thread].pc = "duration"
    /\ telemetry' = RecordGenericMetric(telemetry, AGW_MARKER_BOOTSTRAP_PLUGIN_COUNT,
                                        admitted[thread].pluginCount, AGW_UNIT_COUNT)
    /\ admitted' = [admitted EXCEPT ![thread] = NoCall]
    /\ NoFlush(admitted[thread].op)
    /\ UNCHANGED <<decrementing, flushing, expiring>>

\* ---- RecordTelemetryEvent --------------------------------------------------

\* data.HasLabel(label) ? data[label].String() : eventName
LabelOr(eventData, label, eventName) ==
    IF label \in DOMAIN eventData THEN eventData[label] ELSE eventName

\* a RecordTelemetry* call on a singleton that is not initialized
Unavailable(op) ==
    /\ telEvent' = [Quiet(op) EXCEPT !.hresult = "ERROR_UNAVAILABLE"]
    /\ UNCHANGED <<telemetry, lifecycle, apiSamples>>

\* a thread enters RecordTelemetryEvent and reads mInitialized
RecordTelemetryEventTest(thread, eventName, eventData) ==
    /\ admitted[thread] = NoCall
    /\ IF ~telemetry.mInitialized
       THEN Unavailable("RecordTelemetryEvent") /\ UNCHANGED admitted
       ELSE /\ admitted' =
                   [admitted EXCEPT ![thread] =
                       Admitted("RecordTelemetryEvent", "tested", eventName,
                                eventData, 0)]
            /\ Midway
            /\ UNCHANGED telemetry
    /\ UNCHANGED <<decrementing, flushing, expiring>>

\* the singleton after the error of an error event is counted
ErrorCounted(t, eventName, eventData) ==
    IF eventName = AGW_MARKER_PLUGIN_API_ERROR
    THEN RecordApiError(t, LabelOr(eventData, "api", eventName))
    ELSE RecordExternalServiceErrorInternal(
             t, LabelOr(eventData, "service", eventName))

\* an error event: counted under the name its data gives, by RecordApiError
\* or RecordExternalServiceErrorInternal, which take mAdminLock for the
\* increment and release it
RecordTelemetryEventError(thread) ==
    /\ ~Locked
    /\ admitted[thread].op = "RecordTelemetryEvent"
    /\ admitted[thread].pc = "tested"
    /\ admitted[thread].name \in {AGW_MARKER_PLUGIN_API_ERROR,
                                  AGW_MARKER_PLUGIN_EXT_SERVICE_ERROR}
    /\ telemetry' = ErrorCounted(telemetry, admitted[thread].name,
                                 admitted[thread].data)
    /\ admitted' = [admitted EXCEPT ![thread].pc = "counted"]
    /\ Midway
    /\ UNCHANGED <<decrementing, flushing, expiring>>

\* the error event, counted, is sent at once by SendT2Event, outside
\* mAdminLock, and the call returns
RecordTelemetryEventSend(thread) ==
    /\ admitted[thread].op = "RecordTelemetryEvent"
    /\ admitted[thread].pc = "counted"
    /\ telEvent' = TelEvent("RecordTelemetryEvent", 0, 0, 0,
                            SetToBag({T2Event(admitted[thread].name,
                                              admitted[thread].data)}),
                            EmptyBag, ERROR_NONE)
    /\ admitted' = [admitted EXCEPT ![thread] = NoCall]
    /\ UNCHANGED <<telemetry, lifecycle, apiSamples, decrementing, flushing,
                   expiring>>

\* any other event: mCachedEventCount++ and the threshold test, under
\* mAdminLock; the call returns unless the threshold is reached
RecordTelemetryEventCount(thread) ==
    /\ ~Locked
    /\ admitted[thread].op = "RecordTelemetryEvent"
    /\ admitted[thread].pc = "tested"
    /\ admitted[thread].name \notin {AGW_MARKER_PLUGIN_API_ERROR,
                                     AGW_MARKER_PLUGIN_EXT_SERVICE_ERROR}
    /\ telemetry' = [telemetry EXCEPT !.mCachedEventCount = @ + 1]
    /\ IF telemetry.mCachedEventCount + 1 >= telemetry.mCacheThreshold
       THEN admitted' = [admitted EXCEPT ![thread].pc = "flush"] /\ Midway
       ELSE /\ admitted' = [admitted EXCEPT ![thread] = NoCall]
            /\ NoFlush("RecordTelemetryEvent")
    /\ UNCHANGED <<decrementing, flushing, expiring>>

\* ---- RecordTelemetryMetric -------------------------------------------------

\* the aggregation map RecordTelemetryMetric picks for a metric name
MetricKind(metricName) ==
    IF ParseApiMetricName(metricName).ok THEN "ApiMethod"
    ELSE IF ParseServiceMetricName(metricName).ok THEN "ServiceMethod"
    ELSE IF ParseApiLatencyMetricName(metricName).ok THEN "ApiLatency"
    ELSE IF ParseServiceLatencyMetricName(metricName).ok THEN "ServiceLatency"
    ELSE "Generic"

\* the singleton after the Record*Metric call the metric name selects
Dispatched(t, metricName, metricValue, metricUnit) ==
    LET kind == MetricKind(metricName)
    IN  IF kind = "ApiMethod"
        THEN LET p == ParseApiMetricName(metricName)
             IN  RecordApiMethodMetric(t, p.pluginName, p.name, metricValue,
                                       p.isError)
        ELSE IF kind = "ServiceMethod"
        THEN LET p == ParseServiceMetricName(metricName)
             IN  RecordServiceMethodMetric(t, p.pluginName, p.name, metricValue,
                                           p.isError)
        ELSE IF kind = "ApiLatency"
        THEN LET p == ParseApiLatencyMetricName(metricName)
             IN  RecordApiLatencyMetric(t, p.pluginName, p.name, metricValue)
        ELSE IF kind = "ServiceLatency"
        THEN LET p == ParseServiceLatencyMetricName(metricName)
             IN  RecordServiceLatencyMetric(t, p.pluginName, p.name, metricValue)
        ELSE RecordGenericMetric(t, metricName, metricValue, metricUnit)

\* the samples of the interval once the metric is recorded
SamplesWith(samples, metricName, metricValue) ==
    IF MetricKind(metricName) = "ApiMethod"
    THEN LET p == ParseApiMetricName(metricName)
         IN  samples (+) SetToBag({ApiSample(p.pluginName, p.name, p.isError,
                                             metricValue)})
    ELSE samples

\* a thread enters RecordTelemetryMetric and reads mInitialized
RecordTelemetryMetricTest(thread, metricName, metricValue) ==
    /\ admitted[thread] = NoCall
    /\ IF ~telemetry.mInitialized
       THEN Unavailable("RecordTelemetryMetric") /\ UNCHANGED admitted
       ELSE /\ admitted' =
                   [admitted EXCEPT ![thread] =
                       Admitted("RecordTelemetryMetric", "tested", metricName,
                                EmptyMap, metricValue)]
            /\ Midway
            /\ UNCHANGED telemetry
    /\ UNCHANGED <<decrementing, flushing, expiring>>

\* the bootstrap-duration name: RecordBootstrapTime is entered
RecordTelemetryMetricBootstrap(thread) ==
    /\ admitted[thread].op = "RecordTelemetryMetric"
    /\ admitted[thread].pc = "tested"
    /\ admitted[thread].name = AGW_MARKER_BOOTSTRAP_DURATION
    /\ BootstrapPluginsLoaded(thread, admitted[thread])

\* any other name: the Record*Metric call the name selects, which takes
\* mAdminLock for itself
RecordTelemetryMetricRecord(thread, metricUnit) ==
    /\ ~Locked
    /\ admitted[thread].op = "RecordTelemetryMetric"
    /\ admitted[thread].pc = "tested"
    /\ admitted[thread].name # AGW_MARKER_BOOTSTRAP_DURATION
    /\ telemetry' = Dispatched(telemetry, admitted[thread].name,
                               admitted[thread].value, metricUnit)
    /\ apiSamples' = SamplesWith(apiSamples, admitted[thread].name,
                                 admitted[thread].value)
    /\ admitted' = [admitted EXCEPT ![thread].pc = "recorded"]
    /\ telEvent' = Quiet("none")
    /\ UNCHANGED <<lifecycle, decrementing, flushing, expiring>>

\* mCachedEventCount >= mCacheThreshold, read without mAdminLock; the call
\* returns unless the threshold is reached
RecordTelemetryMetricThreshold(thread) ==
    /\ admitted[thread].op = "RecordTelemetryMetric"
    /\ admitted[thread].pc = "recorded"
    /\ IF telemetry.mCachedEventCount >= telemetry.mCacheThreshold
       THEN admitted' = [admitted EXCEPT ![thread].pc = "flush"] /\ Midway
       ELSE /\ admitted' = [admitted EXCEPT ![thread] = NoCall]
            /\ NoFlush("RecordTelemetryMetric")
    /\ UNCHANGED <<telemetry, decrementing, flushing, expiring>>

\* ---- inputs --------------------------------------------------------------

MaxPlugins == 1

PluginA == <<"a">>
PluginAB == <<"a", "_", "b">>
MethodC == <<"c">>
MethodBC == <<"b", "_", "c">>
ServiceS == <<"s">>

\* two (plugin, method) pairs; "a" + "_" + "b_c" and "a_b" + "_" + "c" are
\* the same text
ApiPairs == {<<PluginA, MethodBC>>, <<PluginAB, MethodC>>}

MetricNames ==
    {ApiMetricName(p[1], p[2], e) : p \in ApiPairs, e \in BOOLEAN}
        \cup {ServiceMetricName(PluginA, ServiceS, e) : e \in BOOLEAN}
        \cup {ApiLatencyMetricName(PluginA, MethodC),
              ServiceLatencyMetricName(PluginA, ServiceS),
              GenericMetricName, AGW_MARKER_BOOTSTRAP_DURATION}

Latencies == {1, 3}

ErrorNames == {MethodC}

\* the two event names that are sent at once
ErrorMarkers == {AGW_MARKER_PLUGIN_API_ERROR, AGW_MARKER_PLUGIN_EXT_SERVICE_ERROR}

EventNames ==
    {AGW_MARKER_PLUGIN_API_ERROR, AGW_MARKER_PLUGIN_EXT_SERVICE_ERROR,
     CustomEventName}

\* event data with and without the "api" and "service" members
EventDatas == {[api |-> MethodC, service |-> ServiceS], EmptyMap}

Thresholds == {MaxRecords}

RECURSIVE MapSum(_)
\* the sum of the counters of a map
MapSum(m) ==
    IF DOMAIN m = {} THEN 0
    ELSE LET k == CHOOSE k \in DOMAIN m : TRUE
         IN  m[k] + MapSum([j \in DOMAIN m \ {k} |-> m[j]])

\* how much the singleton holds: the records and counts of the interval and
\* the gauge
TelemetryLoad(t) ==
    t.mCachedEventCount + t.mHealthStats.totalCalls
        + t.mHealthStats.successfulCalls + t.mHealthStats.failedCalls
        + t.mHealthStats.websocketConnections
        + MapSum(t.mApiErrorCounts) + MapSum(t.mExternalServiceErrorCounts)

\* the calls are explored while the singleton holds fewer than MaxRecords
Room(n) == TelemetryLoad(telemetry) + n <= MaxRecords


Durations == {5}

\* the metrics and values handed to RecordTelemetryMetric
MetricInputs ==
    {<<name, v>> : name \in MetricNames \ {AGW_MARKER_BOOTSTRAP_DURATION},
                   v \in Latencies}
        \cup {<<AGW_MARKER_BOOTSTRAP_DURATION, d>> : d \in Durations}

\* one more plugin may report its bootstrap time
RoomForBootstrap ==
    Room(2) /\ telemetry.mBootstrapPluginsLoaded < MaxPlugins

\* a telemetry step leaves the rest of the gateway alone
TelIdle == UNCHANGED <<queryVars, resolverVars, respVars, routerVars, otherVars>>

\* no thread is inside a call of the aggregator
NoCallUnderWay ==
    /\ ~Locked
    /\ expiring = "idle"
    /\ \A thread \in Callers : admitted[thread] = NoCall
    /\ \A t \in Threads : decrementing[t].pc = "idle"

\* the worker pool hands a call to its first free thread
FreeCaller(thread) ==
    /\ admitted[thread] = NoCall
    /\ \A other \in Callers : other < thread => admitted[other] # NoCall

\* no thread is inside a RecordTelemetry* or RecordBootstrapTime call
NoRecorder == \A thread \in Callers : admitted[thread] = NoCall

\* the steps of the calls, taken by whichever thread is there
InitializeStep == Initialize /\ TelIdle
DeinitializeRevokeStep == DeinitializeRevoke /\ TelIdle
DeinitializeReturnStep == DeinitializeReturn /\ TelIdle
FlushTelemetryDataStep == FlushLock("FlushTelemetryData", 0) /\ TelIdle
FlushLockStep ==
    \E op \in {"OnTimerExpired", "RecordTelemetryEvent", "RecordTelemetryMetric"},
       thread \in Callers \cup {0} :
        FlushLock(op, thread) /\ TelIdle
SendHealthStatsLoadStep == SendHealthStatsLoad /\ TelIdle
FlushSendStep == FlushSend /\ TelIdle
ResetHealthStatsStoreStep == ResetHealthStatsStore /\ TelIdle
FlushResetStep == FlushReset /\ TelIdle
TimerExpireStep == TimerExpire /\ TelIdle
OnTimerExpiredRescheduleStep == OnTimerExpiredReschedule /\ TelIdle
IncrementWebSocketConnectionsStep ==
    Room(1) /\ IncrementWebSocketConnections /\ TelIdle
DecrementLoadStep ==
    \E t \in Threads :
        /\ ~Wrapped(telemetry.mHealthStats.websocketConnections)
        /\ DecrementLoad(t) /\ TelIdle
DecrementFetchSubStep == \E t \in Threads : DecrementFetchSub(t) /\ TelIdle
RecordBootstrapTimeTotalStep ==
    \E thread \in Callers : RecordBootstrapTimeTotal(thread) /\ TelIdle
RecordBootstrapTimeDurationStep ==
    \E thread \in Callers : RecordBootstrapTimeDuration(thread) /\ TelIdle
RecordBootstrapTimeCountStep ==
    \E thread \in Callers : RecordBootstrapTimeCount(thread) /\ TelIdle
RecordTelemetryEventTestStep ==
    \E thread \in Callers, eventName \in EventNames, eventData \in EventDatas :
        /\ FreeCaller(thread) /\ Room(1)
        /\ RecordTelemetryEventTest(thread, eventName, eventData)
        /\ TelIdle
RecordTelemetryEventErrorStep ==
    \E thread \in Callers : RecordTelemetryEventError(thread) /\ TelIdle
RecordTelemetryEventSendStep ==
    \E thread \in Callers : RecordTelemetryEventSend(thread) /\ TelIdle
RecordTelemetryEventCountStep ==
    \E thread \in Callers : RecordTelemetryEventCount(thread) /\ TelIdle
RecordTelemetryMetricTestStep ==
    \E thread \in Callers, input \in MetricInputs :
        /\ FreeCaller(thread)
        /\ IF input[1] = AGW_MARKER_BOOTSTRAP_DURATION THEN RoomForBootstrap
           ELSE Room(1)
        /\ RecordTelemetryMetricTest(thread, input[1], input[2])
        /\ TelIdle
RecordTelemetryMetricBootstrapStep ==
    \E thread \in Callers : RecordTelemetryMetricBootstrap(thread) /\ TelIdle
RecordTelemetryMetricRecordStep ==
    \E thread \in Callers :
        RecordTelemetryMetricRecord(thread, AGW_UNIT_MILLISECONDS) /\ TelIdle
RecordTelemetryMetricThresholdStep ==
    \E thread \in Callers : RecordTelemetryMetricThreshold(thread) /\ TelIdle

\* the reporting intervals handed to SetReportingInterval
Intervals == {5}

SetReportingIntervalStep ==
    \E intervalSec \in Intervals : SetReportingInterval(intervalSec) /\ TelIdle

\* the calls entered while no other call is under way: the aggregator used
\* by one thread
InitializeAloneStep == NoCallUnderWay /\ InitializeStep
DeinitializeAloneStep == NoCallUnderWay /\ DeinitializeRevokeStep
SetCacheThresholdAloneStep ==
    \E threshold \in Thresholds :
        NoCallUnderWay /\ SetCacheThreshold(threshold) /\ TelIdle
SetReportingIntervalAloneStep == NoCallUnderWay /\ SetReportingIntervalStep
OnTimerExpiredAloneStep == NoCallUnderWay /\ TimerExpireStep
FlushTelemetryDataAloneStep == NoCallUnderWay /\ FlushTelemetryDataStep
IncrementWebSocketConnectionsAloneStep ==
    NoCallUnderWay /\ IncrementWebSocketConnectionsStep
DecrementWebSocketConnectionsAloneStep == NoCallUnderWay /\ DecrementLoadStep
IncrementTotalCallsAloneStep ==
    NoCallUnderWay /\ Room(1) /\ IncrementTotalCalls /\ TelIdle
IncrementSuccessfulCallsAloneStep ==
    NoCallUnderWay /\ Room(1) /\ IncrementSuccessfulCalls /\ TelIdle
IncrementFailedCallsAloneStep ==
    NoCallUnderWay /\ Room(1) /\ IncrementFailedCalls /\ TelIdle
RecordApiErrorAloneStep ==
    \E apiName \in ErrorNames :
        NoCallUnderWay /\ Room(1) /\ RecordApiErrorCall(apiName) /\ TelIdle
RecordExternalServiceErrorInternalAloneStep ==
    \E serviceName \in ErrorNames :
        /\ NoCallUnderWay /\ Room(1)
        /\ RecordExternalServiceErrorInternalCall(serviceName) /\ TelIdle
RecordBootstrapTimeAloneStep ==
    \E thread \in Callers, durationMs \in Durations :
        /\ NoCallUnderWay /\ FreeCaller(thread) /\ RoomForBootstrap
        /\ RecordBootstrapTimePlugins(thread, durationMs) /\ TelIdle
RecordTelemetryEventAloneStep == NoCallUnderWay /\ RecordTelemetryEventTestStep
RecordTelemetryMetricAloneStep == NoCallUnderWay /\ RecordTelemetryMetricTestStep

\* the calls of one recording thread, entered while other threads are inside
\* Initialize, Deinitialize, a flush or the timer's expiry
RecordTelemetryEventSoleStep == NoRecorder /\ RecordTelemetryEventTestStep
RecordTelemetryMetricSoleStep == NoRecorder /\ RecordTelemetryMetricTestStep

\* the error events and error counts of concurrent threads: a thread enters
\* whatever the others are in the middle of, while there is room for what
\* the threads inside may still count
\* the threads inside a RecordTelemetry* call
Inside == Cardinality({thread \in Callers : admitted[thread] # NoCall})
RecordTelemetryEventFreeStep ==
    \E thread \in Callers, eventName \in ErrorMarkers, eventData \in EventDatas :
        /\ FreeCaller(thread) /\ Room(Inside + 1)
        /\ RecordTelemetryEventTest(thread, eventName, eventData)
        /\ TelIdle
RecordApiErrorStep ==
    \E apiName \in ErrorNames :
        Room(Inside + 1) /\ RecordApiErrorCall(apiName) /\ TelIdle
RecordExternalServiceErrorInternalStep ==
    \E serviceName \in ErrorNames :
        /\ Room(Inside + 1)
        /\ RecordExternalServiceErrorInternalCall(serviceName) /\ TelIdle
\* the calls of concurrent recording threads: a thread enters while another
\* is between its counting block and its flush
RecordTelemetryEventRacingStep ==
    \E thread \in Callers :
        /\ FreeCaller(thread) /\ Room(0)
        /\ RecordTelemetryEventTest(thread, CustomEventName, EmptyMap)
        /\ TelIdle
RacingInputs ==
    {<<ApiMetricName(PluginA, MethodC, TRUE), 3>>, <<GenericMetricName, 1>>}
RecordTelemetryMetricRacingStep ==
    \E thread \in Callers, input \in RacingInputs :
        /\ FreeCaller(thread) /\ Room(0)
        /\ RecordTelemetryMetricTest(thread, input[1], input[2])
        /\ TelIdle

\* names that miss a pattern narrowly, or fit two: no plugin name, no method
\* name, the tag run into the suffix, no "AppGw_" in front, and a method
\* name that holds the service tag
NearMissNames ==
    {ApiMetricName(<<>>, MethodC, FALSE),
     ApiMetricName(PluginA, <<>>, TRUE),
     PluginNamePrefix \o PluginA \o ServiceNameTag
         \o SubSeq(ServiceLatencySuffix, 2, Len(ServiceLatencySuffix)),
     SubSeq(ApiLatencyMetricName(PluginA, MethodC), 7,
            Len(ApiLatencyMetricName(PluginA, MethodC))),
     ApiMetricName(PluginA, MethodC \o ServiceNameTag \o ServiceS, FALSE)}

\* the metrics handed to RecordTelemetryMetric when its dispatch is explored
DispatchInputs ==
    {<<name, v>> :
        name \in {ApiMetricName(PluginA, MethodBC, FALSE),
                  ServiceMetricName(PluginA, ServiceS, TRUE),
                  ApiLatencyMetricName(PluginA, MethodC),
                  ServiceLatencyMetricName(PluginA, ServiceS),
                  GenericMetricName} \cup NearMissNames,
        v \in Latencies}

RecordDispatchAloneStep ==
    \E thread \in Callers, input \in DispatchInputs :
        /\ NoCallUnderWay /\ FreeCaller(thread) /\ Room(1)
        /\ RecordTelemetryMetricTest(thread, input[1], input[2])
        /\ TelIdle

\* the plugins that report their bootstrap time when the bootstrap totals
\* are explored, and the durations they report
MaxReports == 2
ReportedDurations == {5, 7}

\* a plugin reports through the internal shortcut
ReportBootstrapTimeAloneStep ==
    \E thread \in Callers, durationMs \in ReportedDurations :
        /\ NoCallUnderWay /\ FreeCaller(thread)
        /\ telemetry.mBootstrapPluginsLoaded < MaxReports
        /\ RecordBootstrapTimePlugins(thread, durationMs)
        /\ TelIdle

\* a plugin reports through RecordTelemetryMetric
ReportBootstrapMetricAloneStep ==
    \E thread \in Callers, durationMs \in ReportedDurations :
        /\ NoCallUnderWay /\ FreeCaller(thread)
        /\ telemetry.mBootstrapPluginsLoaded < MaxReports
        /\ RecordTelemetryMetricTest(thread, AGW_MARKER_BOOTSTRAP_DURATION,
                                     durationMs)
        /\ TelIdle

(***************************************************************************)
(* AppGatewayTelemetry::FormatTelemetryPayload                             *)
(***************************************************************************)

\* the members a payload object may have, and the elements an array may have
MaxMembers == 2
MaxElements == 2

\* a Core::JSON::Variant: its Content() and what String(), Number(),
\* Boolean() and Array() give.  A number is held in thousandths; an array
\* holds objects, and an object is the list of its members in the order
\* Variants() iterates them.
Variant(type, string, number, boolean, array) ==
    [type |-> type, string |-> string, number |-> number, boolean |-> boolean,
     array |-> array]

JString(string) == Variant("STRING", string, 0, FALSE, <<>>)
JNumber(thousandths) == Variant("NUMBER", <<>>, thousandths, FALSE, <<>>)
JBoolean(boolean) == Variant("BOOLEAN", <<>>, 0, boolean, <<>>)
JArray(objects) == Variant("ARRAY", <<>>, 0, FALSE, objects)
JNull == Variant("EMPTY", <<>>, 0, FALSE, <<>>)

\* a member of an object
Member(key, value) == [key |-> key, value |-> value]

Comma == <<",">>

DigitChars == <<"0", "1", "2", "3", "4", "5", "6", "7", "8", "9">>

RECURSIVE Digits(_)
\* the decimal digits of a natural number
Digits(n) ==
    IF n < 10 THEN <<DigitChars[n + 1]>>
    ELSE Digits(n \div 10) \o <<DigitChars[(n % 10) + 1]>>

Abs(n) == IF n < 0 THEN -n ELSE n
Sign(n) == IF n < 0 THEN <<"-">> ELSE <<>>

\* oss << static_cast<int64_t>(num)
IntegralText(thousandths) ==
    Sign(thousandths) \o Digits(Abs(thousandths) \div 1000)

RECURSIVE Log2(_)
\* floor(log2(n)) of a whole number n >= 1
Log2(n) == IF n < 2 THEN 0 ELSE 1 + Log2(n \div 2)

RECURSIVE Doublings(_)
\* how many doublings bring a number of thousandths to one or more
Doublings(thousandths) ==
    IF thousandths >= 1000 THEN 0 ELSE 1 + Doublings(2 * thousandths)

\* the binary exponent of the double nearest to a positive number
BinaryExponent(thousandths) ==
    IF thousandths >= 1000 THEN Log2(thousandths \div 1000)
    ELSE -Doublings(thousandths)

RECURSIVE PowerOfTwoMod1000(_)
PowerOfTwoMod1000(e) ==
    IF e = 0 THEN 1 ELSE (2 * PowerOfTwoMod1000(e - 1)) % 1000

\* whether the double nearest to a positive number of thousandths is written
\* with its hundredths rounded up.  The stream rounds the double's exact
\* value to nearest, ties to even.  A number ending in 5 thousandths is a
\* double only when it is a multiple of 0.125, and then it is a tie;
\* otherwise the double's 53-bit significand lies below or above it, by the
\* remainder of thousandths * 2^(52 - exponent) modulo 1000.
RoundsUp(thousandths) ==
    IF thousandths % 10 # 5 THEN thousandths % 10 > 5
    ELSE IF thousandths % 125 = 0 THEN (thousandths \div 10) % 2 = 1
    ELSE ((thousandths % 1000)
            * PowerOfTwoMod1000(52 - BinaryExponent(thousandths))) % 1000 > 500

\* oss << std::fixed << std::setprecision(2) << num
FixedText(thousandths) ==
    LET hundredths == (Abs(thousandths) \div 10)
                        + (IF RoundsUp(Abs(thousandths)) THEN 1 ELSE 0)
    IN  Sign(thousandths) \o Digits(hundredths \div 100) \o <<".">>
            \o <<DigitChars[((hundredths \div 10) % 10) + 1],
                 DigitChars[(hundredths % 10) + 1]>>

\* num == static_cast<int64_t>(num) ? the integer : two decimals
NumberText(thousandths) ==
    IF thousandths % 1000 = 0 THEN IntegralText(thousandths)
    ELSE FixedText(thousandths)

BooleanText(boolean) ==
    IF boolean THEN <<"t", "r", "u", "e">> ELSE <<"f", "a", "l", "s", "e">>

\* what the inner loop writes for a field of an array element
FieldText(field) ==
    IF field.type = "STRING" THEN field.string
    ELSE IF field.type = "NUMBER" THEN NumberText(field.number)
    ELSE <<>>

\* the texts of a list of variants, by the function Text
TextsOf(values, Text(_)) == [i \in 1..Len(values) |-> Text(values[i])]

\* the values of the members of an object, in iteration order
ValuesOf(object) == [i \in 1..Len(object) |-> object[i].value]

\* "(" field "," field ... ")" for one array element
GroupText(object) ==
    <<"(">> \o JoinWith(TextsOf(ValuesOf(object), FieldText), Comma) \o <<")">>

\* the groups of the elements of an array, comma-separated
ArrayText(objects) == JoinWith(TextsOf(objects, GroupText), Comma)

\* what the outer loop writes for a top-level member
MemberText(value) ==
    IF value.type = "ARRAY" THEN ArrayText(value.array)
    ELSE IF value.type = "STRING" THEN value.string
    ELSE IF value.type = "NUMBER" THEN NumberText(value.number)
    ELSE IF value.type = "BOOLEAN" THEN BooleanText(value.boolean)
    ELSE <<>>

\* jsonPayload.ToString(payloadStr): the JSON text of the object, which the
\* JSON library writes
JsonText(jsonPayload) == <<[json |-> jsonPayload]>>

FormatTelemetryPayload(mTelemetryFormat, jsonPayload) ==
    IF mTelemetryFormat = "JSON" THEN JsonText(jsonPayload)
    ELSE JoinWith(TextsOf(ValuesOf(jsonPayload), MemberText), Comma)

\* the singleton's format after its constructor; nothing formatted yet
\* (format is the format the last call wrote its payloadStr in)
InitFormat ==
    formatted = [mTelemetryFormat |-> "JSON", jsonPayload |-> <<>>,
                 payloadStr |-> <<>>, format |-> "none"]

\* SetTelemetryFormat writes the format under mAdminLock
SetTelemetryFormat(format) ==
    /\ ~Locked
    /\ formatted' = [formatted EXCEPT !.mTelemetryFormat = format]

\* a Send* function formats a payload object
FormatTelemetryPayloadCall(jsonPayload) ==
    formatted' =
        [formatted EXCEPT
            !.jsonPayload = jsonPayload,
            !.payloadStr =
                FormatTelemetryPayload(formatted.mTelemetryFormat, jsonPayload),
            !.format = formatted.mTelemetryFormat]

\* ---- inputs --------------------------------------------------------------

\* an array element of the kind the code's comment shows, {"api":"GetData",
\* "count":5}, and one with a fraction and a boolean
ElementApiCount == <<Member("api", JString(MethodC)), Member("count", JNumber(5000))>>
ElementFlag == <<Member("avg", JNumber(2718)), Member("ok", JBoolean(TRUE))>>

Elements == {ElementApiCount, ElementFlag}

\* the lists of at most n members of a set
RECURSIVE ListsUpTo(_, _)
ListsUpTo(S, n) ==
    IF n = 0 THEN {<<>>}
    ELSE LET shorter == ListsUpTo(S, n - 1)
         IN  shorter \cup {Append(l, x) : l \in shorter, x \in S}

\* the values a top-level member may have (0.999 is written "1.00"; of the
\* numbers halfway between two hundredths 0.125 is written "0.12", 1.005
\* "1.00" and 1.135 "1.14")
MemberValues ==
    {JString(MethodC), JString(<<>>), JNumber(30000), JNumber(1504),
     JNumber(-250), JNumber(999), JNumber(125), JNumber(1005), JNumber(1135),
     JBoolean(TRUE), JBoolean(FALSE), JNull}
        \cup {JArray(l) : l \in ListsUpTo(Elements, MaxElements)}

\* the member names, by position: a JsonObject holds each name once
KeyAt(i) == <<"k">> \o Digits(i)

\* the payload objects handed to FormatTelemetryPayload
Payloads ==
    {[i \in 1..Len(values) |-> Member(KeyAt(i), values[i])] :
        values \in ListsUpTo(MemberValues, MaxMembers)}

FormatIdle ==
    UNCHANGED <<queryVars, resolverVars, respVars, routerVars, telemetryVars,
                delegateVars, subscriptionVars, healthVars, speedVars>>

\* the payload object to format is drawn at the start
InitFormatInputs ==
    \E jsonPayload \in Payloads :
        formatted = [mTelemetryFormat |-> "JSON", jsonPayload |-> jsonPayload,
                     payloadStr |-> <<>>, format |-> "none"]

SetTelemetryFormatStep ==
    \E format \in {"JSON", "COMPACT"} :
        /\ formatted.format = "none"
        /\ SetTelemetryFormat(format)
        /\ FormatIdle
FormatTelemetryPayloadStep ==
    /\ formatted.format = "none"
    /\ FormatTelemetryPayloadCall(formatted.jsonPayload)
    /\ FormatIdle

(***************************************************************************)
(* LifecycleDelegate (AppGatewayCommon/delegate/LifecycleDelegate.h)       *)
(*                                                                         *)
(* The delegate keeps four registries: app id -> app instance id, app      *)
(* instance id -> {previousState, currentState}, app instance id ->        *)
(* navigation intent, and the focused app instance id.  Its base class     *)
(* BaseEventDelegate (AddNotification, RemoveNotification, Dispatch) is    *)
(* not part of the sources: Dispatch is the record of the call, and the    *)
(* subscription table is the per-event mapping the specification           *)
(* describes.  A JSON text built by concatenation is the sequence of the   *)
(* pieces concatenated.                                                    *)
(***************************************************************************)

\* Exchange::ILifecycleManager::LifecycleState
LifecycleStates ==
    {"UNLOADED", "LOADING", "INITIALIZING", "PAUSED", "ACTIVE", "SUSPENDED",
     "HIBERNATED", "TERMINATING"}

\* static const std::set<string> VALID_LIFECYCLE_EVENT
VALID_LIFECYCLE_EVENT ==
    {
      <<"l", "i", "f", "e", "c", "y", "c", "l", "e", ".", "o", "n", "b",
        "a", "c", "k", "g", "r", "o", "u", "n", "d">>,
      <<"l", "i", "f", "e", "c", "y", "c", "l", "e", ".", "o", "n", "f",
        "o", "r", "e", "g", "r", "o", "u", "n", "d">>,
      <<"l", "i", "f", "e", "c", "y", "c", "l", "e", ".", "o", "n", "i",
        "n", "a", "c", "t", "i", "v", "e">>,
      <<"l", "i", "f", "e", "c", "y", "c", "l", "e", ".", "o", "n", "s",
        "u", "s", "p", "e", "n", "d", "e", "d">>,
      <<"l", "i", "f", "e", "c", "y", "c", "l", "e", ".", "o", "n", "u",
        "n", "l", "o", "a", "d", "i", "n", "g">>,
      <<"l", "i", "f", "e", "c", "y", "c", "l", "e", "2", ".", "o", "n",
        "s", "t", "a", "t", "e", "c", "h", "a", "n", "g", "e", "d">>,
      <<"d", "i", "s", "c", "o", "v", "e", "r", "y", ".", "o", "n", "n",
        "a", "v", "i", "g", "a", "t", "e", "t", "o">>,
      <<"p", "r", "e", "s", "e", "n", "t", "a", "t", "i", "o", "n", ".",
        "o", "n", "f", "o", "c", "u", "s", "e", "d", "C", "h", "a", "n",
        "g", "e", "d">>
    }

\* static string LifecycleStateToString(LifecycleState state)
LifecycleStateToString(state) ==
    CASE state = "UNLOADED" -> "unloaded"
      [] state = "LOADING" -> "loading"
      [] state = "INITIALIZING" -> "initializing"
      [] state = "PAUSED" -> "paused"
      [] state = "ACTIVE" -> "active"
      [] state = "SUSPENDED" -> "suspended"
      [] state = "HIBERNATED" -> "hibernated"
      [] state = "TERMINATING" -> "terminating"
      [] OTHER -> ""

\* static string Lifecycle2StateToLifecycle1String(LifecycleState state)
Lifecycle2StateToLifecycle1String(state) ==
    CASE state \in {"UNLOADED", "TERMINATING"} -> "unloading"
      [] state \in {"LOADING", "INITIALIZING"} -> "initializing"
      [] state = "PAUSED" -> "inactive"
      [] state = "ACTIVE" -> "foreground"
      [] state \in {"HIBERNATED", "SUSPENDED"} -> "suspended"
      [] OTHER -> ""

\* struct LifecycleStateInfo
LifecycleStateInfo(previousState, currentState) ==
    [previousState |-> previousState, currentState |-> currentState]

\* the LifecycleStateInfo that lifecycleStateMap[appInstanceId] creates for an
\* absent key: both members value-initialised, the enumerator of value 0
ValueInitialized == LifecycleStateInfo("UNLOADED", "UNLOADED")

\* AppIdInstanceIdMap::AddAppInstanceId
AddAppInstanceId(appIdInstanceIdMap, appId, appInstanceId) ==
    MapPut(appIdInstanceIdMap, appId, appInstanceId)

\* AppIdInstanceIdMap::GetAppInstanceId
GetAppInstanceId(appIdInstanceIdMap, appId) ==
    IF appId \in DOMAIN appIdInstanceIdMap THEN appIdInstanceIdMap[appId] ELSE ""

\* the keys of a std::map<string, ...> in iteration order; the app ids of the
\* model are named so that their order is the order of their digits
AppIdOrder == <<"app1", "app2">>

\* AppIdInstanceIdMap::GetAppId: the first app id, in key order, mapped to the
\* instance
GetAppId(appIdInstanceIdMap, appInstanceId) ==
    LET hits == {k \in 1..Len(AppIdOrder) :
                    /\ AppIdOrder[k] \in DOMAIN appIdInstanceIdMap
                    /\ appIdInstanceIdMap[AppIdOrder[k]] = appInstanceId}
    IN  IF hits = {} THEN ""
        ELSE AppIdOrder[CHOOSE k \in hits : \A j \in hits : k <= j]

\* LifecycleStateRegistry::AddLifecycleState
AddLifecycleState(lifecycleStateMap, appInstanceId, previousState, currentState) ==
    MapPut(lifecycleStateMap, appInstanceId,
           LifecycleStateInfo(previousState, currentState))

\* LifecycleStateRegistry::UpdateLifecycleState: the state the cache held
\* becomes the previous state
UpdateLifecycleState(lifecycleStateMap, appInstanceId, newState) ==
    LET stateInfo == IF appInstanceId \in DOMAIN lifecycleStateMap
                     THEN lifecycleStateMap[appInstanceId]
                     ELSE ValueInitialized
    IN  MapPut(lifecycleStateMap, appInstanceId,
               LifecycleStateInfo(stateInfo.currentState, newState))

\* mutant of IsAppLifecycleActive: the cached state is not consulted
IsAppLifecycleActiveAlways(lifecycleStateMap, appInstanceId) == TRUE

\* LifecycleStateRegistry::IsAppLifecycleActive
IsAppLifecycleActive(lifecycleStateMap, appInstanceId) ==
    /\ appInstanceId \in DOMAIN lifecycleStateMap
    /\ lifecycleStateMap[appInstanceId].currentState = "ACTIVE"

\* LifecycleStateRegistry::GetLifecycle1StateJson
GetLifecycle1StateJson(lifecycleStateMap, appInstanceId) ==
    IF appInstanceId \in DOMAIN lifecycleStateMap
    THEN LET stateInfo == lifecycleStateMap[appInstanceId]
         IN  <<"{ \"previous\": \"",
               Lifecycle2StateToLifecycle1String(stateInfo.previousState),
               "\", \"state\": \"",
               Lifecycle2StateToLifecycle1String(stateInfo.currentState),
               "\" }">>
    ELSE <<"{}">>

\* LifecycleStateRegistry::GetLifecycle2StateJson
GetLifecycle2StateJson(lifecycleStateMap, appInstanceId) ==
    IF appInstanceId \in DOMAIN lifecycleStateMap
    THEN LET stateInfo == lifecycleStateMap[appInstanceId]
         IN  <<"{ \"oldState\": \"",
               LifecycleStateToString(stateInfo.previousState),
               "\", \"newState\": \"",
               LifecycleStateToString(stateInfo.currentState),
               "\" }">>
    ELSE <<"{}">>

\* NavigationIntentRegistry::AddNavigationIntent
AddNavigationIntent(navigationIntentMap, appInstanceId, navigationIntent) ==
    MapPut(navigationIntentMap, appInstanceId, navigationIntent)

\* NavigationIntentRegistry::GetNavigationIntent
GetNavigationIntent(navigationIntentMap, appInstanceId) ==
    IF appInstanceId \in DOMAIN navigationIntentMap
    THEN navigationIntentMap[appInstanceId]
    ELSE ""

\* mutant of IsAppInstanceIdFocused: no instance is ever the focused one
IsAppInstanceIdFocusedNever(focusedAppInstanceId, appInstanceId) == FALSE

\* FocusedAppRegistry::IsAppInstanceIdFocused
IsAppInstanceIdFocused(focusedAppInstanceId, appInstanceId) ==
    focusedAppInstanceId = appInstanceId

\* FocusedAppRegistry::GetFocusedEventData
GetFocusedEventData(focusedAppInstanceId, appInstanceId) ==
    <<"{ \"value\": ",
      IF focusedAppInstanceId = appInstanceId THEN "true" ELSE "false",
      " }">>

\* BaseEventDelegate::Dispatch(event, payload, appId): the call made
Dispatch(event, payload, appId) ==
    [event |-> event, payload |-> payload, appId |-> appId]

\* the delegate's registries and its subscription table
Registries(appIdInstanceIdMap, lifecycleStateMap, navigationIntentMap,
           focusedAppInstanceId, notifications) ==
    [appIdInstanceIdMap |-> appIdInstanceIdMap,
     lifecycleStateMap |-> lifecycleStateMap,
     navigationIntentMap |-> navigationIntentMap,
     focusedAppInstanceId |-> focusedAppInstanceId,
     notifications |-> notifications]

\* the arguments of a HandleEvent call
Requested(cb, event, listen) == [cb |-> cb, event |-> event, listen |-> listen]

NoRequest == Requested("", <<>>, FALSE)

\* a call into the delegate and what it did: the transition a lifecycle
\* notification reported and the Dispatch calls made in order; for
\* HandleEvent its arguments, the call it made on the subscription table,
\* what it returned and what registrationError holds afterwards
DelegateCalled(op, appInstanceId, oldLifecycleState, newLifecycleState,
               dispatched, request, tableCall, handled, registrationError) ==
    [op |-> op, appInstanceId |-> appInstanceId,
     oldLifecycleState |-> oldLifecycleState,
     newLifecycleState |-> newLifecycleState, dispatched |-> dispatched,
     request |-> request, tableCall |-> tableCall,
     handled |-> handled, registrationError |-> registrationError]

\* the instances of which an Initializing transition has been reported, and
\* for each app the instance of the latest such report
Launched(instances, latest) == [instances |-> instances, latest |-> latest]

\* the app instances the producers report on, the app each belongs to and the
\* navigation intent reported with it (none for the second)
AppInstanceIds == {"i1", "i2"}
AppIdOf(appInstanceId) ==
    IF appInstanceId \in {"i1", "i3"} THEN "app1" ELSE "app2"
NavigationIntentOf(appInstanceId) ==
    IF appInstanceId = "i1" THEN "{\"action\":\"home\"}" ELSE ""

\* the thread of a producer inside a notification of the delegate: where it
\* is, the notification and its arguments, the locals (the appId of
\* HandleLifeycleUpdate, the appInstanceId of DispatchLastKnownIntent), the
\* Dispatch call being prepared (event, the arguments evaluated so far) and
\* the Dispatch calls made
Notifying(pc, op, appId, appInstanceId, oldLifecycleState, newLifecycleState) ==
    [pc |-> pc, op |-> op, appId |-> appId, appInstanceId |-> appInstanceId,
     oldLifecycleState |-> oldLifecycleState,
     newLifecycleState |-> newLifecycleState,
     updateAppId |-> "", lastKnown |-> "",
     event |-> "", evaluated |-> {}, payload |-> <<>>, target |-> "",
     dispatched |-> <<>>]

NotNotifying == Notifying("idle", "none", "", "", "", "")

\* the producers whose notifications the delegate's handlers take: the
\* lifecycle manager (OnAppLifecycleStateChanged) and the window manager
\* (OnFocus, OnBlur)
Producers == {"LifecycleManager", "WindowManager"}

\* no call into the delegate has returned since one was entered
NoDelegateCall ==
    DelegateCalled("none", "", "", "", <<>>, NoRequest, "none", FALSE, FALSE)

InitDelegate ==
    /\ delegate = Registries(EmptyMap, EmptyMap, EmptyMap, "", {})
    /\ delegateCall = NoDelegateCall
    /\ launched = Launched({}, EmptyMap)
    /\ notifying = [producer \in Producers |-> NotNotifying]

\* a Dispatch(event, payload, appId) call is reached: its two other arguments
\* are still to be evaluated
ToDispatch(n, event) ==
    [n EXCEPT !.pc = "Dispatch", !.event = event, !.evaluated = {},
              !.payload = <<>>, !.target = ""]

\* void HandleLifecycle1Update(appInstanceId, oldLifecycleState,
\* newLifecycleState): the switch on newLifecycleState, which for ACTIVE
\* first asks the focused-app registry and for LOADING and INITIALIZING does
\* nothing
HandleLifecycle1Update(n) ==
    CASE n.newLifecycleState = "PAUSED" -> ToDispatch(n, "Lifecycle.onInactive")
      [] n.newLifecycleState \in {"SUSPENDED", "HIBERNATED"} ->
            ToDispatch(n, "Lifecycle.onSuspended")
      [] n.newLifecycleState \in {"UNLOADED", "TERMINATING"} ->
            ToDispatch(n, "Lifecycle.onUnloading")
      [] n.newLifecycleState = "ACTIVE" ->
            [n EXCEPT !.pc = "IsAppInstanceIdFocused"]
      [] OTHER -> [n EXCEPT !.pc = "return"]

\* LifecycleNotificationHandler::OnAppLifecycleStateChanged is entered: the
\* navigation intent is stored
OnAppLifecycleStateChangedAddNavigationIntent(appId, appInstanceId, oldLifecycleState, newLifecycleState, navigationIntent) ==
    /\ notifying["LifecycleManager"].pc = "idle"
    /\ delegate' = [delegate EXCEPT !.navigationIntentMap =
                        AddNavigationIntent(@, appInstanceId, navigationIntent)]
    /\ notifying' = [notifying EXCEPT !["LifecycleManager"] =
            Notifying(IF newLifecycleState = "INITIALIZING"
                      THEN "AddAppInstanceId" ELSE "UpdateLifecycleState",
                      "OnAppLifecycleStateChanged", appId, appInstanceId,
                      oldLifecycleState, newLifecycleState)]
    /\ delegateCall' = NoDelegateCall
    /\ UNCHANGED launched

\* the new state is INITIALIZING: the instance is registered as the one of
\* its app
OnAppLifecycleStateChangedAddAppInstanceId(t) ==
    /\ notifying[t].pc = "AddAppInstanceId"
    /\ delegate' = [delegate EXCEPT !.appIdInstanceIdMap =
                        AddAppInstanceId(@, notifying[t].appId,
                                         notifying[t].appInstanceId)]
    /\ launched' = Launched(launched.instances \cup {notifying[t].appInstanceId},
                            MapPut(launched.latest,
                                   AppIdOf(notifying[t].appInstanceId),
                                   notifying[t].appInstanceId))
    /\ notifying' = [notifying EXCEPT ![t].pc = "AddLifecycleState"]
    /\ UNCHANGED delegateCall

\* and its two states are cached
OnAppLifecycleStateChangedAddLifecycleState(t) ==
    /\ notifying[t].pc = "AddLifecycleState"
    /\ delegate' = [delegate EXCEPT !.lifecycleStateMap =
                        AddLifecycleState(@, notifying[t].appInstanceId,
                                          notifying[t].oldLifecycleState,
                                          notifying[t].newLifecycleState)]
    /\ notifying' = [notifying EXCEPT ![t].pc = "UpdateLifecycleState"]
    /\ UNCHANGED <<delegateCall, launched>>

\* void HandleLifeycleUpdate(appInstanceId, oldLifecycleState,
\* newLifecycleState) is entered: the cache is updated
HandleLifeycleUpdateUpdateLifecycleState(t) ==
    /\ notifying[t].pc = "UpdateLifecycleState"
    /\ delegate' = [delegate EXCEPT !.lifecycleStateMap =
                        UpdateLifecycleState(@, notifying[t].appInstanceId,
                                             notifying[t].newLifecycleState)]
    /\ notifying' = [notifying EXCEPT ![t].pc = "GetAppId"]
    /\ UNCHANGED <<delegateCall, launched>>

\* string appId = mAppIdInstanceIdMap.GetAppId(appInstanceId)
HandleLifeycleUpdateGetAppId(t) ==
    /\ notifying[t].pc = "GetAppId"
    /\ notifying' = [notifying EXCEPT
            ![t].updateAppId = GetAppId(delegate.appIdInstanceIdMap,
                                        notifying[t].appInstanceId),
            ![t].pc = "GetLifecycle2StateJson"]
    /\ UNCHANGED <<delegate, delegateCall, launched>>

\* Dispatch("Lifecycle2.onStateChanged", GetLifecycle2StateJson(appInstanceId),
\* appId); an ACTIVE state goes on to DispatchLastKnownIntent, any other to
\* HandleLifecycle1Update
HandleLifeycleUpdateDispatch(t) ==
    LET called == [notifying[t] EXCEPT !.dispatched =
                    Append(@, Dispatch("Lifecycle2.onStateChanged",
                                       GetLifecycle2StateJson(
                                            delegate.lifecycleStateMap,
                                            notifying[t].appInstanceId),
                                       notifying[t].updateAppId))]
    IN  /\ notifying[t].pc = "GetLifecycle2StateJson"
        /\ notifying' = [notifying EXCEPT ![t] =
                IF called.newLifecycleState = "ACTIVE"
                THEN [called EXCEPT !.pc = "GetAppInstanceId"]
                ELSE HandleLifecycle1Update(called)]
        /\ UNCHANGED <<delegate, delegateCall, launched>>

\* void DispatchLastKnownIntent(const string& appId): the instance of the
\* app is looked up; with none the function returns
DispatchLastKnownIntentGetAppInstanceId(t) ==
    LET appInstanceId == GetAppInstanceId(delegate.appIdInstanceIdMap,
                                          notifying[t].updateAppId)
    IN  /\ notifying[t].pc = "GetAppInstanceId"
        /\ notifying' = [notifying EXCEPT ![t] =
                IF appInstanceId # ""
                THEN [notifying[t] EXCEPT !.lastKnown = appInstanceId,
                                          !.pc = "GetNavigationIntent"]
                ELSE HandleLifecycle1Update(notifying[t])]
        /\ UNCHANGED <<delegate, delegateCall, launched>>

\* DispatchLastKnownIntent: the intent of that instance is looked up and, if
\* there is one, dispatched as Discovery.onNavigateTo
DispatchLastKnownIntentGetNavigationIntent(t) ==
    LET navigationIntent == GetNavigationIntent(delegate.navigationIntentMap,
                                                notifying[t].lastKnown)
        called == IF navigationIntent # ""
                  THEN [notifying[t] EXCEPT !.dispatched =
                            Append(@, Dispatch("Discovery.onNavigateTo",
                                               <<navigationIntent>>,
                                               notifying[t].updateAppId))]
                  ELSE notifying[t]
    IN  /\ notifying[t].pc = "GetNavigationIntent"
        /\ notifying' = [notifying EXCEPT ![t] = HandleLifecycle1Update(called)]
        /\ UNCHANGED <<delegate, delegateCall, launched>>

\* HandleLifecycle1Update, the ACTIVE case:
\* mFocusedAppRegistry.IsAppInstanceIdFocused(appInstanceId)
HandleLifecycle1UpdateIsAppInstanceIdFocused(t) ==
    /\ notifying[t].pc = "IsAppInstanceIdFocused"
    /\ notifying' = [notifying EXCEPT ![t] =
            ToDispatch(notifying[t],
                    IF IsAppInstanceIdFocused(delegate.focusedAppInstanceId,
                                              notifying[t].appInstanceId)
                    THEN "Lifecycle.onForeground"
                    ELSE "Lifecycle.onBackground")]
    /\ UNCHANGED <<delegate, delegateCall, launched>>

\* both arguments of the Dispatch call are evaluated: the call is made.  The
\* focus event of OnFocus and OnBlur is followed by HandleAppFocusForLifecycle1
\* or HandleAppBlurForLifecycle1, every other event by the return.
Dispatching(n) ==
    IF n.evaluated = {"payload", "appId"}
    THEN [n EXCEPT !.dispatched = Append(@, Dispatch(n.event, n.payload, n.target)),
                   !.pc = IF n.event = "Presentation.onFocusedChanged"
                          THEN "IsAppLifecycleActive" ELSE "return"]
    ELSE n

\* the payload argument of a Dispatch call is evaluated:
\* mFocusedAppRegistry.GetFocusedEventData(appInstanceId) for the focus event,
\* mLifecycleStateRegistry.GetLifecycle1StateJson(appInstanceId) for a legacy
\* event.  The two arguments are evaluated in either order.
DispatchPayload(t) ==
    /\ notifying[t].pc = "Dispatch"
    /\ "payload" \notin notifying[t].evaluated
    /\ notifying' = [notifying EXCEPT ![t] =
            Dispatching([notifying[t] EXCEPT
                !.payload =
                    IF notifying[t].event = "Presentation.onFocusedChanged"
                    THEN GetFocusedEventData(delegate.focusedAppInstanceId,
                                             notifying[t].appInstanceId)
                    ELSE GetLifecycle1StateJson(delegate.lifecycleStateMap,
                                                notifying[t].appInstanceId),
                !.evaluated = @ \cup {"payload"}])]
    /\ UNCHANGED <<delegate, delegateCall, launched>>

\* the appId argument of a Dispatch call is evaluated:
\* mAppIdInstanceIdMap.GetAppId(appInstanceId)
DispatchGetAppId(t) ==
    /\ notifying[t].pc = "Dispatch"
    /\ "appId" \notin notifying[t].evaluated
    /\ notifying' = [notifying EXCEPT ![t] =
            Dispatching([notifying[t] EXCEPT
                !.target = GetAppId(delegate.appIdInstanceIdMap,
                                    notifying[t].appInstanceId),
                !.evaluated = @ \cup {"appId"}])]
    /\ UNCHANGED <<delegate, delegateCall, launched>>

\* WindowManagerNotificationHandler::OnFocus is entered:
\* SetFocusedAppInstanceId(appInstanceId)
OnFocusSetFocusedAppInstanceId(appInstanceId) ==
    /\ notifying["WindowManager"].pc = "idle"
    /\ delegate' = [delegate EXCEPT !.focusedAppInstanceId = appInstanceId]
    /\ notifying' = [notifying EXCEPT !["WindowManager"] =
            ToDispatch(Notifying("Dispatch", "OnFocus", "", appInstanceId, "", ""),
                    "Presentation.onFocusedChanged")]
    /\ delegateCall' = NoDelegateCall
    /\ UNCHANGED launched

\* WindowManagerNotificationHandler::OnBlur is entered:
\* ClearFocusedAppInstanceId()
OnBlurClearFocusedAppInstanceId(appInstanceId) ==
    /\ notifying["WindowManager"].pc = "idle"
    /\ delegate' = [delegate EXCEPT !.focusedAppInstanceId = ""]
    /\ notifying' = [notifying EXCEPT !["WindowManager"] =
            ToDispatch(Notifying("Dispatch", "OnBlur", "", appInstanceId, "", ""),
                    "Presentation.onFocusedChanged")]
    /\ delegateCall' = NoDelegateCall
    /\ UNCHANGED launched

\* HandleAppFocusForLifecycle1 and HandleAppBlurForLifecycle1 are entered:
\* mLifecycleStateRegistry.IsAppLifecycleActive(appInstanceId); the function
\* returns when the instance is not Active
HandleAppFocusForLifecycle1IsAppLifecycleActive(t) ==
    /\ notifying[t].pc = "IsAppLifecycleActive"
    /\ notifying' = [notifying EXCEPT ![t].pc =
            IF IsAppLifecycleActive(delegate.lifecycleStateMap,
                                    notifying[t].appInstanceId)
            THEN "SetFocusedAppInstanceId" ELSE "return"]
    /\ UNCHANGED <<delegate, delegateCall, launched>>

\* HandleAppFocusForLifecycle1: SetFocusedAppInstanceId(appInstanceId), and
\* Lifecycle.onForeground is to be dispatched
HandleAppFocusForLifecycle1SetFocusedAppInstanceId(t) ==
    /\ notifying[t].pc = "SetFocusedAppInstanceId"
    /\ notifying[t].op = "OnFocus"
    /\ delegate' = [delegate EXCEPT
                        !.focusedAppInstanceId = notifying[t].appInstanceId]
    /\ notifying' = [notifying EXCEPT ![t] =
            ToDispatch(notifying[t], "Lifecycle.onForeground")]
    /\ UNCHANGED <<delegateCall, launched>>

\* HandleAppBlurForLifecycle1: ClearFocusedAppInstanceId(), and
\* Lifecycle.onBackground is to be dispatched
HandleAppBlurForLifecycle1ClearFocusedAppInstanceId(t) ==
    /\ notifying[t].pc = "SetFocusedAppInstanceId"
    /\ notifying[t].op = "OnBlur"
    /\ delegate' = [delegate EXCEPT !.focusedAppInstanceId = ""]
    /\ notifying' = [notifying EXCEPT ![t] =
            ToDispatch(notifying[t], "Lifecycle.onBackground")]
    /\ UNCHANGED <<delegateCall, launched>>

\* the notification returns to the producer
NotificationReturn(t) ==
    /\ notifying[t].pc = "return"
    /\ delegateCall' =
            DelegateCalled(notifying[t].op, notifying[t].appInstanceId,
                           notifying[t].oldLifecycleState,
                           notifying[t].newLifecycleState,
                           notifying[t].dispatched, NoRequest, "none", FALSE,
                           FALSE)
    /\ notifying' = [notifying EXCEPT ![t] = NotNotifying]
    /\ UNCHANGED <<delegate, launched>>

\* Core::hresult Authenticate(const string& appInstanceId, string& appId)
Authenticate(d, appInstanceId) ==
    LET appId == GetAppId(d.appIdInstanceIdMap, appInstanceId)
    IN  [appId |-> appId,
         hresult |-> IF appId = "" THEN "ERROR_GENERAL" ELSE ERROR_NONE]

\* BaseEventDelegate::AddNotification: the emitter is in the event's mapping
AddNotification(notifications, event, cb) ==
    notifications \cup {<<event, cb>>}

\* BaseEventDelegate::RemoveNotification: the emitter is out of the event's
\* mapping
RemoveNotification(notifications, event, cb) ==
    notifications \ {<<event, cb>>}

\* bool HandleSubscription(cb, event, listen): the table afterwards; the
\* function returns false
HandleSubscription(notifications, cb, event, listen) ==
    IF listen
    THEN AddNotification(notifications, event, cb)
    ELSE RemoveNotification(notifications, event, cb)

\* bool HandleEvent(cb, event, listen, bool &registrationError); the caller's
\* registrationError is left as it was when the event is not recognised
HandleEvent(cb, event, listen, registrationErrorBefore) ==
    IF ToLower(event) \in VALID_LIFECYCLE_EVENT
    THEN /\ delegate' =
            [delegate EXCEPT !.notifications =
                HandleSubscription(@, cb, event, listen)]
         /\ delegateCall' =
            DelegateCalled("HandleEvent", "", "", "", <<>>,
                           Requested(cb, event, listen),
                           IF listen THEN "AddNotification"
                           ELSE "RemoveNotification",
                           TRUE, FALSE)
    ELSE /\ delegate' = delegate
         /\ delegateCall' =
            DelegateCalled("HandleEvent", "", "", "", <<>>,
                           Requested(cb, event, listen), "none", FALSE,
                           registrationErrorBefore)

\* the transitions reported: every pair of states for the first instance, a
\* launch into the foreground for the second
ReportedTransitions(appInstanceId) ==
    IF appInstanceId = "i1"
    THEN LifecycleStates \X LifecycleStates
    ELSE {<<"LOADING", "INITIALIZING">>, <<"INITIALIZING", "ACTIVE">>}

\* the documented names of the delegate's events, in the documented order
DocumentedEvents ==
    <<
      <<"L", "i", "f", "e", "c", "y", "c", "l", "e", ".", "o", "n", "B",
        "a", "c", "k", "g", "r", "o", "u", "n", "d">>,
      <<"L", "i", "f", "e", "c", "y", "c", "l", "e", ".", "o", "n", "F",
        "o", "r", "e", "g", "r", "o", "u", "n", "d">>,
      <<"L", "i", "f", "e", "c", "y", "c", "l", "e", ".", "o", "n", "I",
        "n", "a", "c", "t", "i", "v", "e">>,
      <<"L", "i", "f", "e", "c", "y", "c", "l", "e", ".", "o", "n", "S",
        "u", "s", "p", "e", "n", "d", "e", "d">>,
      <<"L", "i", "f", "e", "c", "y", "c", "l", "e", ".", "o", "n", "U",
        "n", "l", "o", "a", "d", "i", "n", "g">>,
      <<"L", "i", "f", "e", "c", "y", "c", "l", "e", "2", ".", "o", "n",
        "S", "t", "a", "t", "e", "C", "h", "a", "n", "g", "e", "d">>,
      <<"D", "i", "s", "c", "o", "v", "e", "r", "y", ".", "o", "n", "N",
        "a", "v", "i", "g", "a", "t", "e", "T", "o">>,
      <<"P", "r", "e", "s", "e", "n", "t", "a", "t", "i", "o", "n", ".",
        "o", "n", "F", "o", "c", "u", "s", "e", "d", "C", "h", "a", "n",
        "g", "e", "d">>
    >>

EventsAsDocumented == {DocumentedEvents[k] : k \in 1..Len(DocumentedEvents)}

\* names of no event of the delegate
OtherEvents ==
    {
      <<"L", "i", "f", "e", "c", "y", "c", "l", "e", ".", "o", "n", "R",
        "e", "a", "d", "y">>,
      <<"L", "i", "f", "e", "c", "y", "c", "l", "e", ".", "o", "n", "B",
        "a", "c", "k", "g", "r", "o", "u", "n", "d", "s">>,
      <<"T", "e", "x", "t", "T", "r", "a", "c", "k", ".", "o", "n", "C",
        "h", "a", "n", "g", "e", "d">>
    }

\* the event names of the subscription requests: the documented names as
\* written, some of them in lower case and in upper case (the focus event in
\* both), and names of other events
SubscriptionEvents ==
    EventsAsDocumented
        \cup {ToLower(DocumentedEvents[k]) : k \in {1, 6, 8}}
        \cup {ToUpper(DocumentedEvents[k]) : k \in {2, 8}}
        \cup OtherEvents

Emitters == {"cb1"}

\* the subscriptions held at once in the model
MaxSubscriptions == 2

DelegateIdle ==
    UNCHANGED <<queryVars, resolverVars, respVars, routerVars, telemetryVars,
                formatVars, subscriptionVars, healthVars, speedVars>>

\* no producer's thread is inside a notification
NoNotifier == \A t \in Producers : notifying[t] = NotNotifying

\* the notifications of SpecLifecycle and SpecRelaunch, taken one at a time
OnAppLifecycleStateChangedAloneStep ==
    \E appInstanceId \in AppInstanceIds :
        \E transition \in ReportedTransitions(appInstanceId) :
            /\ NoNotifier
            /\ OnAppLifecycleStateChangedAddNavigationIntent(
                    AppIdOf(appInstanceId), appInstanceId, transition[1],
                    transition[2], NavigationIntentOf(appInstanceId))
            /\ DelegateIdle
OnFocusAloneStep ==
    \E appInstanceId \in AppInstanceIds :
        NoNotifier /\ OnFocusSetFocusedAppInstanceId(appInstanceId) /\ DelegateIdle
OnBlurAloneStep ==
    \E appInstanceId \in AppInstanceIds :
        NoNotifier /\ OnBlurClearFocusedAppInstanceId(appInstanceId) /\ DelegateIdle
OnAppLifecycleStateChangedAddAppInstanceIdStep ==
    \E t \in Producers :
        OnAppLifecycleStateChangedAddAppInstanceId(t) /\ DelegateIdle
OnAppLifecycleStateChangedAddLifecycleStateStep ==
    \E t \in Producers :
        OnAppLifecycleStateChangedAddLifecycleState(t) /\ DelegateIdle
HandleLifeycleUpdateUpdateLifecycleStateStep ==
    \E t \in Producers :
        HandleLifeycleUpdateUpdateLifecycleState(t) /\ DelegateIdle
HandleLifeycleUpdateGetAppIdStep ==
    \E t \in Producers : HandleLifeycleUpdateGetAppId(t) /\ DelegateIdle
HandleLifeycleUpdateDispatchStep ==
    \E t \in Producers : HandleLifeycleUpdateDispatch(t) /\ DelegateIdle
DispatchLastKnownIntentGetAppInstanceIdStep ==
    \E t \in Producers :
        DispatchLastKnownIntentGetAppInstanceId(t) /\ DelegateIdle
DispatchLastKnownIntentGetNavigationIntentStep ==
    \E t \in Producers :
        DispatchLastKnownIntentGetNavigationIntent(t) /\ DelegateIdle
HandleLifecycle1UpdateIsAppInstanceIdFocusedStep ==
    \E t \in Producers :
        HandleLifecycle1UpdateIsAppInstanceIdFocused(t) /\ DelegateIdle
DispatchPayloadStep == \E t \in Producers : DispatchPayload(t) /\ DelegateIdle
DispatchGetAppIdStep == \E t \in Producers : DispatchGetAppId(t) /\ DelegateIdle
HandleAppFocusForLifecycle1IsAppLifecycleActiveStep ==
    \E t \in Producers :
        HandleAppFocusForLifecycle1IsAppLifecycleActive(t) /\ DelegateIdle
HandleAppFocusForLifecycle1SetFocusedAppInstanceIdStep ==
    \E t \in Producers :
        HandleAppFocusForLifecycle1SetFocusedAppInstanceId(t) /\ DelegateIdle
HandleAppBlurForLifecycle1ClearFocusedAppInstanceIdStep ==
    \E t \in Producers :
        HandleAppBlurForLifecycle1ClearFocusedAppInstanceId(t) /\ DelegateIdle
NotificationReturnStep == \E t \in Producers : NotificationReturn(t) /\ DelegateIdle

\* an app is started again: a second instance of app1 beside the first
RelaunchedInstances == {"i1", "i3"}

\* the transitions of a launch, a stay in the foreground and a termination
RelaunchTransitions ==
    {<<"LOADING", "INITIALIZING">>, <<"INITIALIZING", "PAUSED">>,
     <<"PAUSED", "ACTIVE">>, <<"ACTIVE", "PAUSED">>,
     <<"PAUSED", "TERMINATING">>, <<"TERMINATING", "UNLOADED">>}

RelaunchAloneStep ==
    \E appInstanceId \in RelaunchedInstances :
        \E transition \in RelaunchTransitions :
            /\ NoNotifier
            /\ OnAppLifecycleStateChangedAddNavigationIntent(
                    AppIdOf(appInstanceId), appInstanceId, transition[1],
                    transition[2], NavigationIntentOf(appInstanceId))
            /\ DelegateIdle
HandleEventStep ==
    \E cb \in Emitters, event \in SubscriptionEvents, listen \in BOOLEAN,
       registrationErrorBefore \in BOOLEAN :
        /\ HandleEvent(cb, event, listen, registrationErrorBefore)
        /\ Cardinality(delegate'.notifications) <= MaxSubscriptions
        /\ UNCHANGED <<launched, notifying>>
        /\ DelegateIdle

(***************************************************************************)
(* UserSettingsDelegate and TextTrackDelegate: subscriptions               *)
(* (AppGatewayCommon/delegate/UserSettingsDelegate.h, TextTrackDelegate.h) *)
(*                                                                         *)
(* Each delegate holds the interface of its downstream producer once it    *)
(* has acquired it, a notification sink with a registered flag, and the    *)
(* subscription table of BaseEventDelegate.  The number of Register calls  *)
(* made on each producer is counted.  HandleAppEventNotifier submits one   *)
(* job per request to the worker pool, so requests run on several threads. *)
(* A call through a null interface pointer ends the process: the thread    *)
(* that made it stays at "crashed" and no thread takes another step.       *)
(***************************************************************************)

\* static const std::set<string> VALID_USER_SETTINGS_EVENT
VALID_USER_SETTINGS_EVENT ==
    {
      <<"l", "o", "c", "a", "l", "i", "z", "a", "t", "i", "o", "n", ".",
        "o", "n", "l", "a", "n", "g", "u", "a", "g", "e", "c", "h", "a",
        "n", "g", "e", "d">>,
      <<"l", "o", "c", "a", "l", "i", "z", "a", "t", "i", "o", "n", ".",
        "o", "n", "l", "o", "c", "a", "l", "e", "c", "h", "a", "n", "g",
        "e", "d">>,
      <<"l", "o", "c", "a", "l", "i", "z", "a", "t", "i", "o", "n", ".",
        "o", "n", "p", "r", "e", "f", "e", "r", "r", "e", "d", "a", "u",
        "d", "i", "o", "l", "a", "n", "g", "u", "a", "g", "e", "s", "c",
        "h", "a", "n", "g", "e", "d">>,
      <<"a", "c", "c", "e", "s", "s", "i", "b", "i", "l", "i", "t", "y",
        ".", "o", "n", "a", "u", "d", "i", "o", "d", "e", "s", "c", "r",
        "i", "p", "t", "i", "o", "n", "s", "e", "t", "t", "i", "n", "g",
        "s", "c", "h", "a", "n", "g", "e", "d">>,
      <<"a", "c", "c", "e", "s", "s", "i", "b", "i", "l", "i", "t", "y",
        ".", "o", "n", "h", "i", "g", "h", "c", "o", "n", "t", "r", "a",
        "s", "t", "u", "i", "c", "h", "a", "n", "g", "e", "d">>,
      <<"c", "l", "o", "s", "e", "d", "c", "a", "p", "t", "i", "o", "n",
        "s", ".", "o", "n", "e", "n", "a", "b", "l", "e", "d", "c", "h",
        "a", "n", "g", "e", "d">>,
      <<"c", "l", "o", "s", "e", "d", "c", "a", "p", "t", "i", "o", "n",
        "s", ".", "o", "n", "p", "r", "e", "f", "e", "r", "r", "e", "d",
        "l", "a", "n", "g", "u", "a", "g", "e", "s", "c", "h", "a", "n",
        "g", "e", "d">>,
      <<"a", "c", "c", "e", "s", "s", "i", "b", "i", "l", "i", "t", "y",
        ".", "o", "n", "c", "l", "o", "s", "e", "d", "c", "a", "p", "t",
        "i", "o", "n", "s", "s", "e", "t", "t", "i", "n", "g", "s", "c",
        "h", "a", "n", "g", "e", "d">>,
      <<"a", "c", "c", "e", "s", "s", "i", "b", "i", "l", "i", "t", "y",
        ".", "o", "n", "v", "o", "i", "c", "e", "g", "u", "i", "d", "a",
        "n", "c", "e", "s", "e", "t", "t", "i", "n", "g", "s", "c", "h",
        "a", "n", "g", "e", "d">>
    }

\* static const std::set<string> TEXTTRACK_EVENTS
TEXTTRACK_EVENTS ==
    {
      <<"a", "c", "c", "e", "s", "s", "i", "b", "i", "l", "i", "t", "y",
        ".", "o", "n", "c", "l", "o", "s", "e", "d", "c", "a", "p", "t",
        "i", "o", "n", "s", "s", "e", "t", "t", "i", "n", "g", "s", "c",
        "h", "a", "n", "g", "e", "d">>
    }

\* static const std::set<string> VALID_TEXTTRACK_EVENT
VALID_TEXTTRACK_EVENT ==
    {
      <<"a", "c", "c", "e", "s", "s", "i", "b", "i", "l", "i", "t", "y",
        ".", "o", "n", "c", "l", "o", "s", "e", "d", "c", "a", "p", "t",
        "i", "o", "n", "s", "s", "e", "t", "t", "i", "n", "g", "s", "c",
        "h", "a", "n", "g", "e", "d">>
    }

\* the UserSettingsDelegate: mUserSettings and mTextTrack (acquired or null),
\* the registered flags of mNotificationHandler and
\* mTextTrackNotificationHandler, the subscription table and the Register
\* calls made on the two producers
UserSettingsDelegate(mUserSettings, mTextTrack, registered, textTrackRegistered,
                     notifications, registers, textTrackRegisters) ==
    [mUserSettings |-> mUserSettings, mTextTrack |-> mTextTrack,
     registered |-> registered, textTrackRegistered |-> textTrackRegistered,
     notifications |-> notifications, registers |-> registers,
     textTrackRegisters |-> textTrackRegisters]

\* the TextTrackDelegate: mTextTrack, the registered flag of
\* mNotificationHandler, the subscription table and the Register calls made
TextTrackDelegate(mTextTrack, registered, notifications, registers) ==
    [mTextTrack |-> mTextTrack, registered |-> registered,
     notifications |-> notifications, registers |-> registers]

\* what a HandleEvent call of one of the two delegates did: its arguments,
\* what it returned, what registrationError holds afterwards and whether it
\* added the emitter to the subscription table
SubscribeCalled(delegateName, request, handled, registrationError, added) ==
    [delegate |-> delegateName, request |-> request, handled |-> handled,
     registrationError |-> registrationError, added |-> added]

\* a worker-pool thread inside HandleSubscription: where it is and the
\* request it serves
Subscribing(pc, request) == [pc |-> pc, request |-> request]

IdleSubscriber == Subscribing("idle", NoRequest)

\* a thread has called through a null pointer
Crashed == \E thread \in DOMAIN subscribing : subscribing[thread].pc = "crashed"

\* the worker-pool threads serving subscription requests
MaxSubscribers == 2

Subscribers == 1..MaxSubscribers

InitSubscriptions ==
    /\ userSettings = UserSettingsDelegate(FALSE, FALSE, FALSE, FALSE, {}, 0, 0)
    /\ textTrack = TextTrackDelegate(FALSE, FALSE, {}, 0)
    /\ subscribing = [thread \in Subscribers |-> IdleSubscriber]
    /\ subscribeCall = SubscribeCalled("none", NoRequest, FALSE, FALSE, FALSE)

\* UserSettingsDelegate::GetUserSettingsInterface: the interface is queried
\* while the delegate holds none; the query gives it when the producer is
\* available
GetUserSettingsInterface(d, available) ==
    IF ~d.mUserSettings THEN [d EXCEPT !.mUserSettings = available] ELSE d

\* UserSettingsDelegate::GetTextTrackInterface, under mInterfaceMutex
GetTextTrackInterface(d, available) ==
    IF ~d.mTextTrack THEN [d EXCEPT !.mTextTrack = available] ELSE d

\* UserSettingsDelegate::HandleSubscription, the first block under
\* mRegistrationMutex: the sink is registered unless it is already
RegisterUserSettingsSink(d) ==
    IF ~d.registered
    THEN [d EXCEPT !.registers = @ + 1, !.registered = TRUE]
    ELSE d

\* UserSettingsDelegate::HandleSubscription, the second block under
\* mRegistrationMutex, entered with the TextTrack interface in hand: the
\* TextTrack sink is registered unless it is already
RegisterTextTrackSink(d) ==
    IF ~d.textTrackRegistered
    THEN [d EXCEPT !.textTrackRegisters = @ + 1, !.textTrackRegistered = TRUE]
    ELSE d

\* a thread enters HandleEvent of the UserSettingsDelegate. An event that is
\* not the delegate's is not handled and registrationError is left as it was.
\* With listen = false HandleSubscription removes the emitter and returns
\* false. With listen = true it acquires the interface under mInterfaceMutex
\* and returns false when there is none.
UserSettingsSubscribeStart(thread, cb, event, listen, registrationErrorBefore, available) ==
    LET acquired == GetUserSettingsInterface(userSettings, available)
        request == Requested(cb, event, listen)
    IN  /\ subscribing[thread].pc = "idle" /\ ~Crashed
        /\ IF ToLower(event) \notin VALID_USER_SETTINGS_EVENT
           THEN /\ subscribeCall' = SubscribeCalled("UserSettings", request,
                                        FALSE, registrationErrorBefore, FALSE)
                /\ UNCHANGED <<userSettings, subscribing>>
           ELSE IF ~listen
           THEN /\ userSettings' = [userSettings EXCEPT !.notifications =
                                        RemoveNotification(@, event, cb)]
                /\ subscribeCall' = SubscribeCalled("UserSettings", request,
                                        TRUE, FALSE, FALSE)
                /\ UNCHANGED subscribing
           ELSE IF ~acquired.mUserSettings
           THEN /\ userSettings' = acquired
                /\ subscribeCall' = SubscribeCalled("UserSettings", request,
                                        TRUE, FALSE, FALSE)
                /\ UNCHANGED subscribing
           ELSE /\ userSettings' = acquired
                /\ subscribing' = [subscribing EXCEPT ![thread] =
                                        Subscribing("register", request)]
                /\ UNCHANGED subscribeCall
        /\ UNCHANGED textTrack

\* the thread holds mRegistrationMutex and registers the UserSettings sink;
\* the closed captions events go on to the TextTrack interface
UserSettingsSubscribeRegister(thread) ==
    /\ subscribing[thread].pc = "register" /\ ~Crashed
    /\ userSettings' = RegisterUserSettingsSink(userSettings)
    /\ subscribing' = [subscribing EXCEPT ![thread].pc =
            IF ToLower(subscribing[thread].request.event) \in TEXTTRACK_EVENTS
            THEN "getTextTrack" ELSE "add"]
    /\ UNCHANGED <<textTrack, subscribeCall>>

\* the thread acquires the TextTrack interface under mInterfaceMutex, outside
\* mRegistrationMutex
UserSettingsSubscribeGetTextTrack(thread, available) ==
    LET acquired == GetTextTrackInterface(userSettings, available)
    IN  /\ subscribing[thread].pc = "getTextTrack" /\ ~Crashed
        /\ userSettings' = acquired
        /\ subscribing' = [subscribing EXCEPT ![thread].pc =
                IF acquired.mTextTrack THEN "texttrack" ELSE "add"]
        /\ UNCHANGED <<textTrack, subscribeCall>>

\* the thread holds mRegistrationMutex and registers the TextTrack sink
UserSettingsSubscribeTextTrack(thread) ==
    /\ subscribing[thread].pc = "texttrack" /\ ~Crashed
    /\ userSettings' = RegisterTextTrackSink(userSettings)
    /\ subscribing' = [subscribing EXCEPT ![thread].pc = "add"]
    /\ UNCHANGED <<textTrack, subscribeCall>>

\* the thread adds the emitter and returns true
UserSettingsSubscribeAdd(thread) ==
    /\ subscribing[thread].pc = "add" /\ ~Crashed
    /\ userSettings' =
            [userSettings EXCEPT !.notifications =
                AddNotification(@, subscribing[thread].request.event,
                                subscribing[thread].request.cb)]
    /\ subscribeCall' =
            SubscribeCalled("UserSettings", subscribing[thread].request,
                            TRUE, TRUE, TRUE)
    /\ subscribing' = [subscribing EXCEPT ![thread] = IdleSubscriber]
    /\ UNCHANGED textTrack

\* a thread enters HandleEvent of the TextTrackDelegate: as for the
\* UserSettingsDelegate, but GetTextTrackInterface takes no lock: the thread
\* tests mTextTrack here and queries, assigns and returns in steps of their
\* own
TextTrackSubscribeStart(thread, cb, event, listen, registrationErrorBefore) ==
    LET request == Requested(cb, event, listen)
    IN  /\ subscribing[thread].pc = "idle" /\ ~Crashed
        /\ IF ToLower(event) \notin VALID_TEXTTRACK_EVENT
           THEN /\ subscribeCall' = SubscribeCalled("TextTrack", request,
                                        FALSE, registrationErrorBefore, FALSE)
                /\ UNCHANGED <<textTrack, subscribing>>
           ELSE IF ~listen
           THEN /\ textTrack' = [textTrack EXCEPT !.notifications =
                                        RemoveNotification(@, event, cb)]
                /\ subscribeCall' = SubscribeCalled("TextTrack", request,
                                        TRUE, FALSE, FALSE)
                /\ UNCHANGED subscribing
           ELSE /\ subscribing' = [subscribing EXCEPT ![thread] =
                        Subscribing(IF textTrack.mTextTrack
                                    THEN "textTrackReturnInterface"
                                    ELSE "textTrackQuery", request)]
                /\ UNCHANGED <<textTrack, subscribeCall>>
        /\ UNCHANGED userSettings

\* the thread, having read mTextTrack as null, queries the interface and
\* assigns what it got to mTextTrack, whatever another thread has assigned
\* in the meantime
TextTrackSubscribeQuery(thread, available) ==
    /\ subscribing[thread].pc = "textTrackQuery" /\ ~Crashed
    /\ textTrack' = [textTrack EXCEPT !.mTextTrack = available]
    /\ subscribing' = [subscribing EXCEPT ![thread].pc =
            IF available THEN "textTrackReturnInterface"
            ELSE "textTrackReturnNull"]
    /\ UNCHANGED <<userSettings, subscribeCall>>

\* GetTextTrackInterface returns mTextTrack: the value the thread has read or
\* assigned, or with reread the value the member holds now (the accesses are
\* unsynchronised and the build may do either).  HandleSubscription returns
\* false when it is given null.
TextTrackSubscribeReturn(thread, reread) ==
    LET held == subscribing[thread].pc = "textTrackReturnInterface"
        interface == IF reread THEN textTrack.mTextTrack ELSE held
    IN  /\ subscribing[thread].pc
                \in {"textTrackReturnInterface", "textTrackReturnNull"}
        /\ ~Crashed
        /\ IF ~interface
           THEN /\ subscribeCall' = SubscribeCalled("TextTrack",
                                        subscribing[thread].request,
                                        TRUE, FALSE, FALSE)
                /\ subscribing' = [subscribing EXCEPT ![thread] = IdleSubscriber]
           ELSE /\ subscribing' = [subscribing EXCEPT ![thread].pc = "textTrackAdd"]
                /\ UNCHANGED subscribeCall
        /\ UNCHANGED <<userSettings, textTrack>>

\* the thread adds the emitter, before anything is registered
TextTrackSubscribeAdd(thread) ==
    /\ subscribing[thread].pc = "textTrackAdd" /\ ~Crashed
    /\ textTrack' = [textTrack EXCEPT !.notifications =
                        AddNotification(@, subscribing[thread].request.event,
                                        subscribing[thread].request.cb)]
    /\ subscribing' = [subscribing EXCEPT ![thread].pc = "textTrackTest"]
    /\ UNCHANGED <<userSettings, subscribeCall>>

\* the thread reads the registered flag under registerMutex and returns false
\* when it is set
TextTrackSubscribeTest(thread) ==
    /\ subscribing[thread].pc = "textTrackTest" /\ ~Crashed
    /\ IF textTrack.registered
       THEN /\ subscribeCall' = SubscribeCalled("TextTrack",
                                    subscribing[thread].request, TRUE, FALSE, TRUE)
            /\ subscribing' = [subscribing EXCEPT ![thread] = IdleSubscriber]
       ELSE /\ subscribing' = [subscribing EXCEPT ![thread].pc = "textTrackRegister"]
            /\ UNCHANGED subscribeCall
    /\ UNCHANGED <<userSettings, textTrack>>

\* the thread, having read the flag as false, calls Register on the producer
\* through mTextTrack, not through the pointer GetTextTrackInterface gave it:
\* the call crashes when another thread has assigned null in the meantime
TextTrackSubscribeRegister(thread) ==
    /\ subscribing[thread].pc = "textTrackRegister" /\ ~Crashed
    /\ IF textTrack.mTextTrack
       THEN /\ textTrack' = [textTrack EXCEPT !.registers = @ + 1]
            /\ subscribing' = [subscribing EXCEPT ![thread].pc = "textTrackSet"]
       ELSE /\ subscribing' = [subscribing EXCEPT ![thread].pc = "crashed"]
            /\ UNCHANGED textTrack
    /\ UNCHANGED <<userSettings, subscribeCall>>

\* the thread sets the flag under registerMutex and returns true
TextTrackSubscribeSetRegistered(thread) ==
    /\ subscribing[thread].pc = "textTrackSet" /\ ~Crashed
    /\ textTrack' = [textTrack EXCEPT !.registered = TRUE]
    /\ subscribeCall' =
            SubscribeCalled("TextTrack", subscribing[thread].request,
                            TRUE, TRUE, TRUE)
    /\ subscribing' = [subscribing EXCEPT ![thread] = IdleSubscriber]
    /\ UNCHANGED userSettings

\* UserSettingsDelegate::GetVoiceGuidance and the other getters and setters
\* of the delegate that begin with GetUserSettingsInterface(): the interface
\* is acquired under mInterfaceMutex when the delegate holds none; the rest
\* of the call goes through the pointer it was given and changes nothing in
\* the delegate
UserSettingsGetVoiceGuidance(available) ==
    /\ ~Crashed
    /\ userSettings' = GetUserSettingsInterface(userSettings, available)
    /\ UNCHANGED <<textTrack, subscribing, subscribeCall>>

\* UserSettingsDelegate::GetClosedCaptionsStyle: the same with
\* GetTextTrackInterface()
UserSettingsGetClosedCaptionsStyle(available) ==
    /\ ~Crashed
    /\ userSettings' = GetTextTrackInterface(userSettings, available)
    /\ UNCHANGED <<textTrack, subscribing, subscribeCall>>

\* a thread enters TextTrackDelegate::GetClosedCaptionsStyle and tests
\* mTextTrack in GetTextTrackInterface, which takes no lock: with an
\* interface there, the call goes through the pointer it is given and
\* changes nothing in the delegate
TextTrackGetClosedCaptionsStyleTest(thread) ==
    /\ subscribing[thread].pc = "idle" /\ ~Crashed
    /\ subscribing' = [subscribing EXCEPT ![thread] =
            IF textTrack.mTextTrack THEN IdleSubscriber
            ELSE Subscribing("styleQuery", NoRequest)]
    /\ UNCHANGED <<userSettings, textTrack, subscribeCall>>

\* the thread, having read mTextTrack as null, queries the interface and
\* assigns what it got to mTextTrack, whatever another thread has assigned
\* in the meantime; the call returns
TextTrackGetClosedCaptionsStyleQuery(thread, available) ==
    /\ subscribing[thread].pc = "styleQuery" /\ ~Crashed
    /\ textTrack' = [textTrack EXCEPT !.mTextTrack = available]
    /\ subscribing' = [subscribing EXCEPT ![thread] = IdleSubscriber]
    /\ UNCHANGED <<userSettings, subscribeCall>>

\* the event names of the requests: a language event and the closed captions
\* event as documented, the latter in lower case too, and an event of
\* another delegate
SettingsEvents ==
    {
      <<"L", "o", "c", "a", "l", "i", "z", "a", "t", "i", "o", "n", ".",
        "o", "n", "L", "a", "n", "g", "u", "a", "g", "e", "C", "h", "a",
        "n", "g", "e", "d">>,
      <<"A", "c", "c", "e", "s", "s", "i", "b", "i", "l", "i", "t", "y",
        ".", "o", "n", "C", "l", "o", "s", "e", "d", "C", "a", "p", "t",
        "i", "o", "n", "s", "S", "e", "t", "t", "i", "n", "g", "s", "C",
        "h", "a", "n", "g", "e", "d">>,
      <<"a", "c", "c", "e", "s", "s", "i", "b", "i", "l", "i", "t", "y",
        ".", "o", "n", "c", "l", "o", "s", "e", "d", "c", "a", "p", "t",
        "i", "o", "n", "s", "s", "e", "t", "t", "i", "n", "g", "s", "c",
        "h", "a", "n", "g", "e", "d">>,
        DocumentedEvents[1]
    }

\* the event names of the concurrent subscribes: the names as documented
ConcurrentEvents == {event \in SettingsEvents : event # ToLower(event)}

SubscriptionIdle ==
    UNCHANGED <<queryVars, resolverVars, respVars, routerVars, telemetryVars,
                formatVars, delegateVars, healthVars, speedVars>>

\* no thread is inside HandleEvent
NoSubscriber == \A thread \in Subscribers : subscribing[thread] = IdleSubscriber

\* the calls of SpecSubscriptions: any event, subscribe and unsubscribe, one
\* call at a time
UserSettingsHandleEventAloneStep ==
    \E thread \in Subscribers, cb \in Emitters, event \in SettingsEvents,
       listen \in BOOLEAN, registrationErrorBefore \in BOOLEAN,
       available \in BOOLEAN :
        /\ NoSubscriber
        /\ UserSettingsSubscribeStart(thread, cb, event, listen,
                                      registrationErrorBefore, available)
        /\ SubscriptionIdle
TextTrackHandleEventAloneStep ==
    \E thread \in Subscribers, cb \in Emitters, event \in SettingsEvents,
       listen \in BOOLEAN, registrationErrorBefore \in BOOLEAN :
        /\ NoSubscriber
        /\ TextTrackSubscribeStart(thread, cb, event, listen,
                                   registrationErrorBefore)
        /\ SubscriptionIdle
UserSettingsGetVoiceGuidanceAloneStep ==
    \E available \in BOOLEAN :
        /\ NoSubscriber
        /\ UserSettingsGetVoiceGuidance(available)
        /\ SubscriptionIdle
UserSettingsGetClosedCaptionsStyleAloneStep ==
    \E available \in BOOLEAN :
        /\ NoSubscriber
        /\ UserSettingsGetClosedCaptionsStyle(available)
        /\ SubscriptionIdle
TextTrackGetClosedCaptionsStyleAloneStep ==
    \E thread \in Subscribers :
        /\ NoSubscriber
        /\ TextTrackGetClosedCaptionsStyleTest(thread)
        /\ SubscriptionIdle
\* the calls of SpecSubscribers: subscribes of the documented events and the
\* other calls of the delegates, by threads that do not wait for each other
UserSettingsGetVoiceGuidanceStep ==
    \E available \in BOOLEAN :
        UserSettingsGetVoiceGuidance(available) /\ SubscriptionIdle
UserSettingsGetClosedCaptionsStyleStep ==
    \E available \in BOOLEAN :
        UserSettingsGetClosedCaptionsStyle(available) /\ SubscriptionIdle
TextTrackGetClosedCaptionsStyleTestStep ==
    \E thread \in Subscribers :
        TextTrackGetClosedCaptionsStyleTest(thread) /\ SubscriptionIdle
TextTrackGetClosedCaptionsStyleQueryStep ==
    \E thread \in Subscribers, available \in BOOLEAN :
        TextTrackGetClosedCaptionsStyleQuery(thread, available)
            /\ SubscriptionIdle
UserSettingsSubscribeStartStep ==
    \E thread \in Subscribers, cb \in Emitters, event \in ConcurrentEvents,
       available \in BOOLEAN :
        UserSettingsSubscribeStart(thread, cb, event, TRUE, FALSE, available)
            /\ SubscriptionIdle
UserSettingsSubscribeRegisterStep ==
    \E thread \in Subscribers :
        UserSettingsSubscribeRegister(thread) /\ SubscriptionIdle
UserSettingsSubscribeGetTextTrackStep ==
    \E thread \in Subscribers, available \in BOOLEAN :
        UserSettingsSubscribeGetTextTrack(thread, available) /\ SubscriptionIdle
UserSettingsSubscribeTextTrackStep ==
    \E thread \in Subscribers :
        UserSettingsSubscribeTextTrack(thread) /\ SubscriptionIdle
UserSettingsSubscribeAddStep ==
    \E thread \in Subscribers :
        UserSettingsSubscribeAdd(thread) /\ SubscriptionIdle
TextTrackSubscribeStartStep ==
    \E thread \in Subscribers, cb \in Emitters, event \in ConcurrentEvents :
        TextTrackSubscribeStart(thread, cb, event, TRUE, FALSE)
            /\ SubscriptionIdle
TextTrackSubscribeQueryStep ==
    \E thread \in Subscribers, available \in BOOLEAN :
        TextTrackSubscribeQuery(thread, available) /\ SubscriptionIdle
TextTrackSubscribeReturnStep ==
    \E thread \in Subscribers, reread \in BOOLEAN :
        TextTrackSubscribeReturn(thread, reread) /\ SubscriptionIdle
TextTrackSubscribeAddStep ==
    \E thread \in Subscribers :
        TextTrackSubscribeAdd(thread) /\ SubscriptionIdle
TextTrackSubscribeTestStep ==
    \E thread \in Subscribers :
        TextTrackSubscribeTest(thread) /\ SubscriptionIdle
TextTrackSubscribeRegisterStep ==
    \E thread \in Subscribers :
        TextTrackSubscribeRegister(thread) /\ SubscriptionIdle
TextTrackSubscribeSetRegisteredStep ==
    \E thread \in Subscribers :
        TextTrackSubscribeSetRegistered(thread) /\ SubscriptionIdle

(***************************************************************************)
(* AppGatewayTelemetry: a flush running beside other threads               *)
(*                                                                         *)
(* FlushTelemetryData holds mAdminLock from its Send* calls to its Reset*  *)
(* calls; the health counters are atomics that IncrementTotalCalls,        *)
(* IncrementSuccessfulCalls and IncrementFailedCalls change without the    *)
(* lock.  The timer thread enters OnTimerExpired without the lock and      *)
(* takes it inside FlushTelemetryData.                                     *)
(***************************************************************************)

HealthCounters == {"totalCalls", "successfulCalls", "failedCalls"}

\* the increments performed on each health counter, and the sum of the
\* values each health payload sent so far reported for it
Ledger(performed, reported) == [performed |-> performed, reported |-> reported]

InitHealth ==
    ledger = Ledger([c \in HealthCounters |-> 0], [c \in HealthCounters |-> 0])

\* the increments explored
MaxIncrements == 3

\* what the health payloads in a bag of sent events report for each counter
HealthReported(sent) ==
    LET payloads == {e.payload : e \in {s \in BagToSet(sent) :
                                            s.marker = AGW_MARKER_HEALTH_STATS}}
        Of(counter, payload) ==
            CASE counter = "totalCalls" -> payload.total_calls
              [] counter = "successfulCalls" -> payload.successful_calls
              [] counter = "failedCalls" -> payload.failed_calls
    IN  [c \in HealthCounters |->
            IF payloads = {} THEN 0
            ELSE Of(c, CHOOSE payload \in payloads : TRUE)]

\* an Increment*Calls call, counted
Counted(counter) == ledger' = [ledger EXCEPT !.performed[counter] = @ + 1]

\* the Send* calls of a flush, counted
CountedSend ==
    ledger' =
        [ledger EXCEPT !.reported =
            [c \in HealthCounters |->
                @[c] + HealthReported(flushing'.sent)[c]]]

HealthIdle ==
    UNCHANGED <<queryVars, resolverVars, respVars, routerVars, formatVars,
                delegateVars, subscriptionVars, speedVars>>

RoomToIncrement ==
    ledger.performed["totalCalls"] + ledger.performed["successfulCalls"]
        + ledger.performed["failedCalls"] < MaxIncrements

CountedTotalCallsStep ==
    RoomToIncrement /\ IncrementTotalCalls /\ Counted("totalCalls") /\ HealthIdle
CountedSuccessfulCallsStep ==
    /\ RoomToIncrement
    /\ IncrementSuccessfulCalls /\ Counted("successfulCalls") /\ HealthIdle
CountedFailedCallsStep ==
    RoomToIncrement /\ IncrementFailedCalls /\ Counted("failedCalls") /\ HealthIdle
CountedFlushSendStep == FlushSend /\ CountedSend /\ HealthIdle

(***************************************************************************)
(* AppGatewayCommon: the voice-guidance speed                              *)
(* (AppGatewayCommon/AppGatewayCommon.cpp, SetSpeed and GetSpeed)          *)
(*                                                                         *)
(* Speeds and rates are doubles; the model counts them in hundredths, in   *)
(* which the constants the code compares with are whole numbers.  The      *)
(* UserSettings producer keeps the rate it was last given with success.    *)
(* Both calls go through the UserSettingsDelegate, which acquires the      *)
(* producer's interface under mInterfaceMutex and then calls the producer, *)
(* which may fail.                                                         *)
(***************************************************************************)

\* the largest speed written, in hundredths
MaxSpeed == 250

Speeds == 0..MaxSpeed

\* the speeds of Firebolt: 0.5, 1, 1.33, 1.67 and 2
FireboltSpeeds == {50, 100, 133, 167, 200}

\* vg_speed_firebolt2thunder, the if chain of SetSpeed
vg_speed_firebolt2thunder(speed) ==
    IF speed = 200 THEN 1000
    ELSE IF speed >= 167 THEN 138
    ELSE IF speed >= 133 THEN 119
    ELSE IF speed >= 100 THEN 100
    ELSE 10

\* mutant of vg_speed_thunder2firebolt: the rate 1.38 is not yet 1.67
vg_speed_thunder2fireboltStrict(rate) ==
    IF rate >= 156 THEN 200
    ELSE IF rate > 138 THEN 167
    ELSE IF rate >= 119 THEN 133
    ELSE IF rate >= 100 THEN 100
    ELSE 50

\* vg_speed_thunder2firebolt, the if chain of GetSpeed
vg_speed_thunder2firebolt(rate) ==
    IF rate >= 156 THEN 200
    ELSE IF rate >= 138 THEN 167
    ELSE IF rate >= 119 THEN 133
    ELSE IF rate >= 100 THEN 100
    ELSE 50

\* the producer's rate, the speed of the last SetSpeed that reached it, and
\* the last call with the speed it wrote or read
VoiceGuidance(rate, written, op, speed, hresult) ==
    [rate |-> rate, written |-> written, op |-> op, speed |-> speed,
     hresult |-> hresult]

\* a thread inside SetSpeed or GetSpeed, between the acquisition of the
\* interface and the producer's call: where it is and the speed it writes
Speeding(pc, speed) == [pc |-> pc, speed |-> speed]

NotSpeeding == Speeding("idle", 0)

\* the producer holds the rate 1.0 and no speed has been written
InitSpeed ==
    /\ voiceGuidance = VoiceGuidance(100, -1, "none", 0, ERROR_NONE)
    /\ speeding = [thread \in Callers |-> NotSpeeding]

\* a call is under way: none has returned last
SpeedMidway ==
    voiceGuidance' = [voiceGuidance EXCEPT !.op = "none", !.hresult = ERROR_NONE]

\* the call returns hresult and changes nothing
SpeedFailed(op, hresult) ==
    voiceGuidance' = [voiceGuidance EXCEPT !.op = op, !.hresult = hresult]

\* Core::hresult AppGatewayCommon::SetSpeed(const double speed), up to
\* GetUserSettingsInterface in SetVoiceGuidanceRate: ERROR_UNAVAILABLE
\* without the delegate and without the interface, which stays acquired
SetSpeed(thread, speed, created, available) ==
    LET acquired == GetUserSettingsInterface(userSettings, available)
    IN  /\ speeding[thread] = NotSpeeding
        /\ IF ~created
           THEN /\ SpeedFailed("SetSpeed", "ERROR_UNAVAILABLE")
                /\ UNCHANGED <<userSettings, speeding>>
           ELSE IF ~acquired.mUserSettings
           THEN /\ SpeedFailed("SetSpeed", "ERROR_UNAVAILABLE")
                /\ userSettings' = acquired
                /\ UNCHANGED speeding
           ELSE /\ userSettings' = acquired
                /\ speeding' = [speeding EXCEPT ![thread] =
                                    Speeding("SetVoiceGuidanceRate", speed)]
                /\ SpeedMidway

\* userSettings->SetVoiceGuidanceRate(rate) and the return: ERROR_NONE when
\* the producer took the rate, ERROR_GENERAL when it failed
SetVoiceGuidanceRate(thread, succeeds) ==
    /\ speeding[thread].pc = "SetVoiceGuidanceRate"
    /\ IF succeeds
       THEN voiceGuidance' =
                VoiceGuidance(vg_speed_firebolt2thunder(speeding[thread].speed),
                              speeding[thread].speed, "SetSpeed",
                              speeding[thread].speed, ERROR_NONE)
       ELSE SpeedFailed("SetSpeed", "ERROR_GENERAL")
    /\ speeding' = [speeding EXCEPT ![thread] = NotSpeeding]
    /\ UNCHANGED userSettings

\* Core::hresult AppGatewayCommon::GetSpeed(double &speed), up to
\* GetUserSettingsInterface in GetVoiceGuidanceRate
GetSpeed(thread, created, available) ==
    LET acquired == GetUserSettingsInterface(userSettings, available)
    IN  /\ speeding[thread] = NotSpeeding
        /\ IF ~created
           THEN /\ SpeedFailed("GetSpeed", "ERROR_UNAVAILABLE")
                /\ UNCHANGED <<userSettings, speeding>>
           ELSE IF ~acquired.mUserSettings
           THEN /\ SpeedFailed("GetSpeed", "ERROR_UNAVAILABLE")
                /\ userSettings' = acquired
                /\ UNCHANGED speeding
           ELSE /\ userSettings' = acquired
                /\ speeding' = [speeding EXCEPT ![thread] =
                                    Speeding("GetVoiceGuidanceRate", 0)]
                /\ SpeedMidway

\* userSettings->GetVoiceGuidanceRate(rate) and the return: the rate read
\* goes through the if chain; when the producer fails GetSpeed returns
\* ERROR_GENERAL and leaves speed as it was
GetVoiceGuidanceRate(thread, succeeds) ==
    /\ speeding[thread].pc = "GetVoiceGuidanceRate"
    /\ IF succeeds
       THEN voiceGuidance' =
                [voiceGuidance EXCEPT
                    !.op = "GetSpeed",
                    !.speed = vg_speed_thunder2firebolt(voiceGuidance.rate),
                    !.hresult = ERROR_NONE]
       ELSE SpeedFailed("GetSpeed", "ERROR_GENERAL")
    /\ speeding' = [speeding EXCEPT ![thread] = NotSpeeding]
    /\ UNCHANGED userSettings

\* a step of SetSpeed or GetSpeed leaves the rest alone; the interface it
\* acquires is the UserSettingsDelegate's
SpeedIdle ==
    UNCHANGED <<queryVars, resolverVars, respVars, routerVars, telemetryVars,
                formatVars, delegateVars, textTrack, subscribing, subscribeCall,
                healthVars>>

\* no thread is inside SetSpeed or GetSpeed
NoSpeedCall == \A thread \in Callers : speeding[thread] = NotSpeeding

\* the calls, one at a time, on the first thread of the pool
SetSpeedStep ==
    \E thread \in Callers, speed \in Speeds, created \in BOOLEAN,
       available \in BOOLEAN :
        /\ NoSpeedCall /\ \A other \in Callers : thread <= other
        /\ SetSpeed(thread, speed, created, available) /\ SpeedIdle
SetVoiceGuidanceRateStep ==
    \E thread \in Callers, succeeds \in BOOLEAN :
        SetVoiceGuidanceRate(thread, succeeds) /\ SpeedIdle
GetSpeedStep ==
    \E thread \in Callers, created \in BOOLEAN, available \in BOOLEAN :
        /\ NoSpeedCall /\ \A other \in Callers : thread <= other
        /\ GetSpeed(thread, created, available) /\ SpeedIdle
GetVoiceGuidanceRateStep ==
    \E thread \in Callers, succeeds \in BOOLEAN :
        GetVoiceGuidanceRate(thread, succeeds) /\ SpeedIdle

(***************************************************************************)
(* Specifications                                                          *)
(***************************************************************************)

InitAuxIdle ==
    /\ InitRouterIdle /\ InitTelemetry /\ InitFormat /\ InitDelegate
    /\ InitSubscriptions /\ InitHealth /\ InitSpeed

Idle == UNCHANGED <<queryVars, resolverVars, auxVars>>

ConfigureCreateWeakSelfStep == ConfigureCreateWeakSelf /\ Idle
InitializeWebsocketGetWeakSelfStep == InitializeWebsocketGetWeakSelf /\ Idle
SetMessageHandlerStep == SetMessageHandler /\ Idle
SetAuthHandlerStep == SetAuthHandler /\ Idle
SetDisconnectHandlerStep == SetDisconnectHandler /\ Idle
StartStep == Start /\ Idle
OnAuthStep ==
    \E c \in ConnIds, token \in AuthQueries, available \in BOOLEAN :
        OnAuth(c, token, available) /\ Idle
OnMessageStep == \E c \in ConnIds, method \in Methods : OnMessage(c, method) /\ Idle
OnDisconnectStep ==
    \E c \in ConnIds, notifAvailable \in BOOLEAN, cleanupOk \in BOOLEAN :
        OnDisconnect(c, notifAvailable, cleanupOk) /\ Idle
\* the worker pool hands a call of the responder to its first free thread
FreeResponder(thread) ==
    /\ calling[thread] = NotCalling
    /\ \A other \in Callers : other < thread => calling[other] # NotCalling

RespondGetWeakSelfStep ==
    \E thread \in Callers, c \in ConnIds, id \in RequestIds :
        FreeResponder(thread) /\ RespondGetWeakSelf(thread, c, id) /\ Idle
RespondSubmitStep == \E thread \in Callers : RespondSubmit(thread) /\ Idle
EmitIsCompliantJsonRpcStep ==
    \E thread \in Callers, c \in ConnIds, id \in RequestIds :
        /\ FreeResponder(thread)
        /\ EmitIsCompliantJsonRpc(thread, c, id, EventName) /\ Idle
EmitGetWeakSelfStep == \E thread \in Callers : EmitGetWeakSelf(thread) /\ Idle
EmitSubmitStep == \E thread \in Callers : EmitSubmit(thread) /\ Idle
RequestGetWeakSelfStep ==
    \E thread \in Callers, c \in ConnIds, id \in RequestIds :
        FreeResponder(thread) /\ RequestGetWeakSelf(thread, c, id, EventName) /\ Idle
RequestSubmitStep == \E thread \in Callers : RequestSubmit(thread) /\ Idle
RunJobStep ==
    \E job \in BagToSet(jobs), resolverAvailable \in BOOLEAN :
        RunJob(job, resolverAvailable) /\ Idle
CleanupSetMessageHandlerStep == CleanupSetMessageHandler /\ Idle
CleanupSetAuthHandlerStep == CleanupSetAuthHandler /\ Idle
CleanupSetDisconnectHandlerStep == CleanupSetDisconnectHandler /\ Idle
ClearWeakSelfStep == ClearWeakSelf /\ Idle
ReleaseInterfacesStep == ReleaseInterfaces /\ Idle

Init == InitQueryIdle /\ InitResolverIdle /\ InitResponder /\ InitAuxIdle

\* The responder.  No connection is ever admitted (the weak reference the
\* handlers capture is expired from Configure on, so the auth handler rejects
\* every connection), hence the manager never has a frame or a disconnect of
\* an admitted connection to deliver: Next lists the steps that can happen.
\* SpecAllHandlers adds the two connection events that cannot.
Next ==
    \/ ConfigureCreateWeakSelfStep
    \/ InitializeWebsocketGetWeakSelfStep
    \/ SetMessageHandlerStep
    \/ SetAuthHandlerStep
    \/ SetDisconnectHandlerStep
    \/ StartStep
    \/ OnAuthStep
    \/ RespondGetWeakSelfStep
    \/ RespondSubmitStep
    \/ EmitIsCompliantJsonRpcStep
    \/ EmitGetWeakSelfStep
    \/ EmitSubmitStep
    \/ RequestGetWeakSelfStep
    \/ RequestSubmitStep
    \/ RunJobStep
    \/ CleanupSetMessageHandlerStep
    \/ CleanupSetAuthHandlerStep
    \/ CleanupSetDisconnectHandlerStep
    \/ ClearWeakSelfStep
    \/ ReleaseInterfacesStep

Spec == Init /\ [][Next]_vars

NextAllHandlers == Next \/ OnMessageStep \/ OnDisconnectStep

SpecAllHandlers == Init /\ [][NextAllHandlers]_vars

InitQuery ==
    /\ query \in Queries
    /\ resolved = Pending
    /\ InitResolverIdle
    /\ InitResponder
    /\ InitAuxIdle

SpecQuery == InitQuery /\ [][CallResolveQueryStep]_vars

NextResolver == LoadConfigStep \/ ResolveAliasStep

SpecResolver == Init /\ [][NextResolver]_vars

NextRouter == ConfigureRouterStep \/ ResolveStep

SpecRouter == Init /\ [][NextRouter]_vars

NextTelemetry ==
    \/ InitializeAloneStep
    \/ DeinitializeAloneStep
    \/ DeinitializeReturnStep
    \/ SetCacheThresholdAloneStep
    \/ OnTimerExpiredAloneStep
    \/ OnTimerExpiredRescheduleStep
    \/ FlushTelemetryDataAloneStep
    \/ FlushLockStep
    \/ SendHealthStatsLoadStep
    \/ FlushSendStep
    \/ ResetHealthStatsStoreStep
    \/ FlushResetStep
    \/ IncrementWebSocketConnectionsAloneStep
    \/ DecrementWebSocketConnectionsAloneStep
    \/ DecrementFetchSubStep
    \/ IncrementTotalCallsAloneStep
    \/ IncrementSuccessfulCallsAloneStep
    \/ IncrementFailedCallsAloneStep
    \/ RecordApiErrorAloneStep
    \/ RecordExternalServiceErrorInternalAloneStep
    \/ RecordBootstrapTimeAloneStep
    \/ RecordBootstrapTimeTotalStep
    \/ RecordBootstrapTimeDurationStep
    \/ RecordBootstrapTimeCountStep
    \/ RecordTelemetryEventAloneStep
    \/ RecordTelemetryEventErrorStep
    \/ RecordTelemetryEventSendStep
    \/ RecordTelemetryEventCountStep
    \/ RecordTelemetryMetricAloneStep
    \/ RecordTelemetryMetricBootstrapStep
    \/ RecordTelemetryMetricRecordStep
    \/ RecordTelemetryMetricThresholdStep

\* the telemetry aggregator, one call at a time
SpecTelemetry == Init /\ [][NextTelemetry]_vars

NextDispatch ==
    \/ InitializeAloneStep
    \/ SetCacheThresholdAloneStep
    \/ RecordDispatchAloneStep
    \/ RecordTelemetryMetricRecordStep
    \/ RecordTelemetryMetricThresholdStep
    \/ FlushLockStep
    \/ SendHealthStatsLoadStep
    \/ FlushSendStep
    \/ ResetHealthStatsStoreStep
    \/ FlushResetStep

\* RecordTelemetryMetric over metric names of every shape
SpecDispatch == Init /\ [][NextDispatch]_vars

NextFormat == SetTelemetryFormatStep \/ FormatTelemetryPayloadStep

InitPayloads ==
    /\ InitQueryIdle /\ InitResolverIdle /\ InitResponder
    /\ InitRouterIdle /\ InitTelemetry /\ InitFormatInputs /\ InitDelegate
    /\ InitSubscriptions /\ InitHealth /\ InitSpeed

\* FormatTelemetryPayload over payload objects, in both formats
SpecFormat == InitPayloads /\ [][NextFormat]_vars

NextBootstrap ==
    \/ InitializeAloneStep
    \/ DeinitializeAloneStep
    \/ DeinitializeReturnStep
    \/ SetReportingIntervalAloneStep
    \/ ReportBootstrapTimeAloneStep
    \/ ReportBootstrapMetricAloneStep
    \/ RecordTelemetryMetricBootstrapStep
    \/ RecordBootstrapTimeTotalStep
    \/ RecordBootstrapTimeDurationStep
    \/ RecordBootstrapTimeCountStep
    \/ OnTimerExpiredAloneStep
    \/ OnTimerExpiredRescheduleStep
    \/ FlushTelemetryDataAloneStep
    \/ FlushLockStep
    \/ SendHealthStatsLoadStep
    \/ FlushSendStep
    \/ ResetHealthStatsStoreStep
    \/ FlushResetStep

\* the plugins report their bootstrap times while the aggregator is
\* initialized, flushed and deinitialized
SpecBootstrap == Init /\ [][NextBootstrap]_vars

NextRace ==
    \/ InitializeStep
    \/ DeinitializeRevokeStep
    \/ DeinitializeReturnStep
    \/ RecordTelemetryEventSoleStep
    \/ RecordTelemetryEventErrorStep
    \/ RecordTelemetryEventSendStep
    \/ RecordTelemetryEventCountStep
    \/ RecordTelemetryMetricSoleStep
    \/ RecordTelemetryMetricBootstrapStep
    \/ RecordTelemetryMetricRecordStep
    \/ RecordTelemetryMetricThresholdStep
    \/ RecordBootstrapTimeTotalStep
    \/ RecordBootstrapTimeDurationStep
    \/ RecordBootstrapTimeCountStep
    \/ SendHealthStatsLoadStep
    \/ FlushSendStep
    \/ ResetHealthStatsStoreStep
    \/ FlushResetStep

\* the telemetry aggregator with one thread recording while another
\* initializes and deinitializes: mInitialized is read outside mAdminLock
SpecRace == Init /\ [][NextRace]_vars

NextErrors ==
    \/ InitializeStep
    \/ DeinitializeRevokeStep
    \/ DeinitializeReturnStep
    \/ RecordTelemetryEventFreeStep
    \/ RecordTelemetryEventErrorStep
    \/ RecordTelemetryEventSendStep
    \/ RecordApiErrorStep
    \/ RecordExternalServiceErrorInternalStep
    \/ FlushTelemetryDataStep
    \/ SendHealthStatsLoadStep
    \/ FlushSendStep
    \/ ResetHealthStatsStoreStep
    \/ FlushResetStep

\* the telemetry aggregator with threads recording error events and errors
\* at the same time, while others initialize, deinitialize and flush it;
\* every RecordTelemetryEvent here has one of the two error markers as name
SpecErrors == Init /\ [][NextErrors]_vars

NextCallers ==
    \/ InitializeAloneStep
    \/ SetCacheThresholdAloneStep
    \/ RecordTelemetryEventRacingStep
    \/ RecordTelemetryEventCountStep
    \/ RecordTelemetryMetricRacingStep
    \/ RecordTelemetryMetricRecordStep
    \/ RecordTelemetryMetricThresholdStep
    \/ FlushLockStep
    \/ SendHealthStatsLoadStep
    \/ FlushSendStep
    \/ ResetHealthStatsStoreStep
    \/ FlushResetStep

\* the telemetry aggregator with several threads recording at once: the
\* count is read for the flush after mAdminLock is released
SpecCallers == Init /\ [][NextCallers]_vars

NextGauge ==
    \/ IncrementWebSocketConnectionsStep
    \/ DecrementLoadStep
    \/ DecrementFetchSubStep

\* the websocket-connections gauge under concurrent callers
SpecGauge == Init /\ [][NextGauge]_vars


\* what a notification does after it is entered
NextNotification ==
    \/ OnAppLifecycleStateChangedAddAppInstanceIdStep
    \/ OnAppLifecycleStateChangedAddLifecycleStateStep
    \/ HandleLifeycleUpdateUpdateLifecycleStateStep
    \/ HandleLifeycleUpdateGetAppIdStep
    \/ HandleLifeycleUpdateDispatchStep
    \/ DispatchLastKnownIntentGetAppInstanceIdStep
    \/ DispatchLastKnownIntentGetNavigationIntentStep
    \/ HandleLifecycle1UpdateIsAppInstanceIdFocusedStep
    \/ DispatchPayloadStep
    \/ DispatchGetAppIdStep
    \/ NotificationReturnStep

NextLifecycle ==
    \/ OnAppLifecycleStateChangedAloneStep
    \/ OnFocusAloneStep
    \/ OnBlurAloneStep
    \/ HandleAppFocusForLifecycle1IsAppLifecycleActiveStep
    \/ HandleAppFocusForLifecycle1SetFocusedAppInstanceIdStep
    \/ HandleAppBlurForLifecycle1ClearFocusedAppInstanceIdStep
    \/ NextNotification

\* the lifecycle delegate under the notifications of its two producers
SpecLifecycle == Init /\ [][NextLifecycle]_vars

NextRelaunch == RelaunchAloneStep \/ NextNotification

\* the lifecycle delegate while an app is started a second time
SpecRelaunch == Init /\ [][NextRelaunch]_vars

\* the lifecycle delegate under subscription requests
SpecLifecycleEvents == Init /\ [][HandleEventStep]_vars


NextSubscriptions ==
    \/ UserSettingsHandleEventAloneStep
    \/ UserSettingsSubscribeRegisterStep
    \/ UserSettingsSubscribeGetTextTrackStep
    \/ UserSettingsSubscribeTextTrackStep
    \/ UserSettingsSubscribeAddStep
    \/ TextTrackHandleEventAloneStep
    \/ TextTrackSubscribeQueryStep
    \/ TextTrackSubscribeReturnStep
    \/ TextTrackSubscribeAddStep
    \/ TextTrackSubscribeTestStep
    \/ TextTrackSubscribeRegisterStep
    \/ TextTrackSubscribeSetRegisteredStep
    \/ UserSettingsGetVoiceGuidanceAloneStep
    \/ UserSettingsGetClosedCaptionsStyleAloneStep
    \/ TextTrackGetClosedCaptionsStyleAloneStep
    \/ TextTrackGetClosedCaptionsStyleQueryStep

\* the user-settings and text-track delegates under subscription requests,
\* one request at a time
SpecSubscriptions == Init /\ [][NextSubscriptions]_vars

NextSubscribers ==
    \/ UserSettingsSubscribeStartStep
    \/ UserSettingsSubscribeRegisterStep
    \/ UserSettingsSubscribeGetTextTrackStep
    \/ UserSettingsSubscribeTextTrackStep
    \/ UserSettingsSubscribeAddStep
    \/ TextTrackSubscribeStartStep
    \/ TextTrackSubscribeQueryStep
    \/ TextTrackSubscribeReturnStep
    \/ TextTrackSubscribeAddStep
    \/ TextTrackSubscribeTestStep
    \/ TextTrackSubscribeRegisterStep
    \/ TextTrackSubscribeSetRegisteredStep
    \/ UserSettingsGetVoiceGuidanceStep
    \/ UserSettingsGetClosedCaptionsStyleStep
    \/ TextTrackGetClosedCaptionsStyleTestStep
    \/ TextTrackGetClosedCaptionsStyleQueryStep

\* the two delegates under subscribe requests and other calls served by
\* concurrent worker-pool threads
SpecSubscribers == Init /\ [][NextSubscribers]_vars


NextHealth ==
    \/ CountedTotalCallsStep
    \/ CountedSuccessfulCallsStep
    \/ CountedFailedCallsStep
    \/ FlushTelemetryDataStep
    \/ DeinitializeRevokeStep
    \/ SendHealthStatsLoadStep
    \/ CountedFlushSendStep
    \/ ResetHealthStatsStoreStep
    \/ FlushResetStep
    \/ DeinitializeReturnStep
    \/ InitializeStep

\* the health counters incremented while FlushTelemetryData runs, called
\* directly and by Deinitialize
SpecHealth == Init /\ [][NextHealth]_vars

NextShutdown ==
    \/ InitializeStep
    \/ DeinitializeRevokeStep
    \/ DeinitializeReturnStep
    \/ SetReportingIntervalStep
    \/ IncrementWebSocketConnectionsStep
    \/ RecordTelemetryEventSoleStep
    \/ RecordTelemetryEventErrorStep
    \/ RecordTelemetryEventSendStep
    \/ RecordTelemetryEventCountStep
    \/ TimerExpireStep
    \/ OnTimerExpiredRescheduleStep
    \/ FlushLockStep
    \/ SendHealthStatsLoadStep
    \/ FlushSendStep
    \/ ResetHealthStatsStoreStep
    \/ FlushResetStep

\* Deinitialize beside a timer expiry and a record call that are under way
SpecShutdown == Init /\ [][NextShutdown]_vars


NextSpeed ==
    \/ SetSpeedStep
    \/ SetVoiceGuidanceRateStep
    \/ GetSpeedStep
    \/ GetVoiceGuidanceRateStep

\* the voice-guidance speed written and read back
SpecSpeed == Init /\ [][NextSpeed]_vars


(***************************************************************************)
(* Properties                                                              *)
(***************************************************************************)

\* No connection is admitted, and the registries stay empty, in every
\* reachable state of the responder (SpecAllHandlers included).
NoConnectionAdmitted ==
    /\ \A c \in ConnIds : conn[c] \notin {"admitted", "closed"}
    /\ \A c \in ConnIds : mAppIdRegistry[c] = NoApp
    /\ mCompliant = {}
    /\ subscriptions = {}
    /\ effects = NoEffects

\* lastEvent is the invocation of a handler of the triple
HandlerRan == lastEvent.kind \in {"auth", "message", "disconnect"}

\* the query carries session=<token> and the authenticator, which is
\* available, maps that token to an appId
ValidSession(a) ==
    /\ a.available
    /\ AuthenticateAppId(SessionTokenOf(a.token)) # NoApp

\* C2: while the responder is configured and shutdown has not started, onAuth
\* for a connection whose query carries session=<token>, with a token the
\* authenticator maps to an appId, returns true, and when it returns the
\* connection->appId registry maps the connection to that appId.
ClaimC2_AuthAdmitsValidSession ==
    (lastEvent.kind = "auth" /\ ~lastEvent.shut /\ ValidSession(lastEvent))
        => /\ lastEvent.result
           /\ lastEvent.locked
           /\ mAppIdRegistry[lastEvent.conn]
                 = AuthenticateAppId(SessionTokenOf(lastEvent.token))

\* C6: once CleanupWebsocket has started, every connection event is handled by
\* a no-op handler: the three handlers are replaced in one atomic step, so no
\* real handler runs after the first of them has been replaced.
ClaimC6_NoRealHandlerAfterShutdownStart ==
    (HandlerRan /\ lastEvent.shut) => lastEvent.impl = "noop"

\* what the code keeps after ClearWeakSelf: no handler invocation and no
\* work item locks its weak reference, whether the reference was taken
\* before the clear or after it, and none changes the registries or reaches
\* a collaborator.  No reference locks before the clear either
\* (NoConnectionAdmitted): the strong count is 0 from CreateWeakSelf on.
NothingLocksAfterClear ==
    [][WeakSelfCleared =>
          /\ (lastEvent'.kind \in {"auth", "message", "disconnect", "job"}
                  => ~lastEvent'.locked)
          /\ mAppIdRegistry' = mAppIdRegistry
          /\ mCompliant' = mCompliant
          /\ subscriptions' = subscriptions
          /\ effects' = effects]_vars

\* a work item that took its weak reference before ClearWeakSelf has run
\* after it, and did not lock
EarlyJobRunsAfterClear ==
    /\ lastEvent.kind = "job"
    /\ lastEvent.late
    /\ lastEvent.what = "respond"
    /\ lastEvent.weak = "ctrl"
    /\ ~lastEvent.locked

\* what a returning Emit has done: it has submitted exactly one work item
\* and returned success, a notification with the method and the payload
\* when it read the connection as in the compliance set, otherwise a
\* response keyed by the context's request id.  The compliance set is filled
\* by the onAuth handler after a successful lock only, so it stays empty
\* (EmitNeverCompliant) and every Emit takes the second branch.
EmitSubmitsOne ==
    (lastEvent.kind = "call" /\ lastEvent.op = "Emit") =>
        /\ Len(lastEvent.submitted) = 1
        /\ lastEvent.result = ERROR_NONE
        /\ lastEvent.submitted[1].conn = lastEvent.conn
        /\ lastEvent.submitted[1].payload = lastEvent.payload
        /\ BagIn(lastEvent.submitted[1], jobs)
        /\ IF lastEvent.compliant
           THEN /\ lastEvent.submitted[1].kind = "emit"
                /\ lastEvent.submitted[1].method = lastEvent.method
           ELSE /\ lastEvent.submitted[1].kind = "respond"
                /\ lastEvent.submitted[1].id = lastEvent.id

\* Emit was called for a connection outside the compliance set, and its one
\* work item, a response, waits in the pool
EmitSubmittedResponse ==
    /\ lastEvent.kind = "call"
    /\ lastEvent.op = "Emit"
    /\ ~lastEvent.compliant
    /\ lastEvent.submitted # <<>>
    /\ lastEvent.submitted[1].kind = "respond"
    /\ BagIn(lastEvent.submitted[1], jobs)

\* no Emit call finds its connection in the compliance set
EmitNeverCompliant ==
    /\ mCompliant = {}
    /\ (lastEvent.kind = "call" /\ lastEvent.op = "Emit") => ~lastEvent.compliant

\* C9: ResolveQuery(query, "session") returns the token of the session
\* parameter (the characters between "session=" and the next '&' or the end),
\* wherever the parameter stands, and the empty string when there is no
\* session parameter or the token is empty.
ClaimC9_ResolveQueryReturnsToken ==
    resolved.state # "pending" => resolved = Returned(SessionTokenOf(query))

\* the (key, entry) pairs of the successfully loaded documents, in load order
RECURSIVE LoadedPairs(_)
LoadedPairs(log) ==
    IF Len(log) = 0 THEN <<>>
    ELSE (IF log[1].kind = "ok" THEN log[1].entries ELSE <<>>) \o LoadedPairs(Tail(log))

\* the entry of the most recently loaded key that equals method ignoring case
MostRecentEntry(pairs, method) ==
    LET hits == {i \in 1..Len(pairs) : EqualIgnoringCase(pairs[i].key, method)}
    IN  IF hits = {} THEN [found |-> FALSE, entry |-> NoEntry]
        ELSE [found |-> TRUE,
              entry |-> pairs[CHOOSE i \in hits : \A j \in hits : j <= i].entry]

\* C10: after any sequence of loads, a lookup of M in any casing returns the
\* entry of the most recently loaded key equal to M ignoring case (absent if
\* there is none); the lowercase and uppercase spellings of M get the same
\* answer.
TheoremC10_LookupLastWinsIgnoringCase ==
    lastLookup.done =>
        /\ [found |-> lastLookup.found, entry |-> lastLookup.entry]
              = MostRecentEntry(LoadedPairs(loadLog), lastLookup.method)
        /\ LookupResolution(mResolutions, ToLower(lastLookup.method))
              = LookupResolution(mResolutions, lastLookup.method)
        /\ LookupResolution(mResolutions, ToUpper(lastLookup.method))
              = LookupResolution(mResolutions, lastLookup.method)

\* the key was loaded in mixed case with one alias, loaded again in lower case
\* with another, and looked up in upper case: the second alias is returned
WitnessC10_OverrideSeenInOtherCasing ==
    /\ lastLookup.done
    /\ lastLookup.method = MethodUpper
    /\ lastLookup.found
    /\ lastLookup.entry = SecondPlugin
    /\ loadLog = <<OkFile(<<KeyEntry(MethodMixed, FirstPlugin)>>),
                   OkFile(<<KeyEntry(MethodLower, SecondPlugin)>>)>>

\* C11: LoadConfig returns false for a missing file, for a file that is not
\* JSON and for a document without a resolutions object, and such a load
\* leaves IsConfigured as it was (false on a resolver with no successful
\* load); IsConfigured is true exactly when some LoadConfig has returned true.
TheoremC11_FailedLoadNotConfigured ==
    /\ Len(loadReturns) = Len(loadLog)
    /\ \A i \in 1..Len(loadLog) :
          loadLog[i].kind \in {"missing", "invalid", "noresolutions"}
              => ~loadReturns[i]
    /\ mConfigured <=> (\E i \in 1..Len(loadReturns) : loadReturns[i])
    /\ (~mConfigured) => mResolutions = EmptyMap

\* the three kinds of unusable file were loaded one after the other: each
\* load returned false and the resolver is still not configured
WitnessC11_ThreeFailedLoads ==
    /\ Len(loadLog) = 3
    /\ loadLog[1].kind = "missing"
    /\ loadLog[2].kind = "invalid"
    /\ loadLog[3].kind = "noresolutions"
    /\ loadReturns = <<FALSE, FALSE, FALSE>>
    /\ ~mConfigured

\* the last Resolve call was for a method the table resolves to an entry with
\* a non-empty event
ResolvedEvent == lastResolve.done /\ lastResolve.found /\ lastResolve.entry.event # ""

\* the last Resolve call was for a method the table resolves to an entry with
\* an empty event
ResolvedRequest == lastResolve.done /\ lastResolve.found /\ lastResolve.entry.event = ""

\* C12: for a method whose entry has a non-empty event, Resolve with params
\* that are empty, are not an object, or have no boolean field listen returns
\* BadRequest with the body {-32602, "Missing required boolean 'listen'
\* parameter"}, and no event delegate is asked to subscribe or unsubscribe.
TheoremC12_MissingListenBadRequest ==
    (/\ ResolvedEvent
     /\ \/ lastResolve.params.shape \in {"empty", "notobject"}
        \/ lastResolve.params.listen \in {"absent", "notbool"})
        => /\ lastResolve.hresult = "ERROR_BAD_REQUEST"
           /\ lastResolve.body.code = -32602
           /\ lastResolve.body.message = "Missing required boolean 'listen' parameter"
           /\ lastResolve.delegateCalls = <<>>

\* Resolve of the event method with params {} (an object without listen)
\* returned BadRequest
WitnessC12_ObjectWithoutListen ==
    /\ ResolvedEvent
    /\ lastResolve.method = EventMethod
    /\ lastResolve.params = ParamsObject
    /\ lastResolve.available
    /\ lastResolve.hresult = "ERROR_BAD_REQUEST"

\* C13: for a request-path method whose alias cannot be acquired from the
\* host framework, Resolve returns a hresult other than success and the body
\* {-50200, "NotAvailable"}, calls no request handler and looks the alias up
\* once only.
TheoremC13_HandlerMissingNotAvailable ==
    (ResolvedRequest /\ ~lastResolve.available)
        => /\ lastResolve.hresult # "ERROR_NONE"
           /\ lastResolve.body.code = -50200
           /\ lastResolve.body.message = "NotAvailable"
           /\ lastResolve.handlerCalls = <<>>
           /\ lastResolve.acquired = <<lastResolve.entry.alias>>

\* Resolve of the COM-RPC method with no handler behind its alias returned
\* a general error
WitnessC13_ComRpcHandlerMissing ==
    /\ ResolvedRequest
    /\ lastResolve.method = ComRpcMethod
    /\ ~lastResolve.available
    /\ lastResolve.hresult = "ERROR_GENERAL"
    /\ lastResolve.body = NotAvailable

\* C14: on the request path with the handler available, the handler is called
\* exactly once: with the original params when includeContext is false, with
\* {params, _additionalContext} when it is true, _additionalContext being the
\* entry's additionalContext plus origin = originAlias; the handler's hresult
\* and response are what Resolve returns.
TheoremC14_HandlerCalledOnceWithFinalParams ==
    (ResolvedRequest /\ lastResolve.available)
        => /\ Len(lastResolve.handlerCalls) = 1
           /\ lastResolve.handlerCalls[1].method = lastResolve.method
           /\ IF lastResolve.entry.includeContext
              THEN LET given == lastResolve.handlerCalls[1].params
                       ctx == lastResolve.entry.additionalContext
                   IN /\ DOMAIN given = {"params", "_additionalContext"}
                      /\ given.params = lastResolve.params
                      /\ DOMAIN given._additionalContext = DOMAIN ctx \cup {"origin"}
                      /\ given._additionalContext["origin"] = lastResolve.origin
                      /\ \A k \in DOMAIN ctx \ {"origin"} :
                            given._additionalContext[k] = ctx[k]
              ELSE lastResolve.handlerCalls[1].params = lastResolve.params
           /\ lastResolve.hresult = lastResolve.answer.hresult
           /\ lastResolve.body = lastResolve.answer.response

\* Resolve of the method with includeContext and additionalContext
\* {"foo": "bar"}, origin "some-origin": the handler got the wrapped params
\* and its answer came back
WitnessC14_WrappedWithOrigin ==
    /\ ResolvedRequest
    /\ lastResolve.method = ComRpcContextMethod
    /\ lastResolve.available
    /\ lastResolve.origin = "some-origin"
    /\ Len(lastResolve.handlerCalls) = 1
    /\ lastResolve.handlerCalls[1].params._additionalContext
          = [foo |-> "bar", origin |-> "some-origin"]
    /\ lastResolve.hresult = "ERROR_NONE"
    /\ lastResolve.body = "ok"

(***************************************************************************)
(* Properties of the telemetry aggregator                                  *)
(***************************************************************************)

\* the step just taken is this call of the aggregator
Called(op) == telEvent'.op = op

\* the call of the step changed nothing in the aggregator, scheduled no
\* timer, revoked none, flushed nothing and sent nothing
NoEffect ==
    /\ UNCHANGED <<telemetry, lifecycle, apiSamples>>
    /\ telEvent'.schedules = 0
    /\ telEvent'.revokes = 0
    /\ telEvent'.flushes = 0
    /\ telEvent'.sent = EmptyBag

\* Claim C15 as stated: the aggregator moves only Uninitialized ->
\* Initialized -> Deinitialized, so a deinitialized aggregator stays
\* deinitialized.
ClaimC15_OnlyForward ==
    [][lifecycle' # lifecycle
          => <<lifecycle, lifecycle'>> \in
                 {<<"Uninitialized", "Initialized">>,
                  <<"Initialized", "Deinitialized">>}]_vars

\* Claim C15, amended: the aggregator becomes Initialized only by an
\* Initialize call on an aggregator that is not initialized (never
\* initialized, or deinitialized), which schedules the timer once and
\* flushes nothing; it leaves Initialized only by a Deinitialize call, which
\* revokes the timer, leaves no timer pending and flushes exactly once;
\* Initialize while initialized and Deinitialize while not initialized
\* change no state, schedule no timer and perform no flush.
TheoremC15_LifecycleMoves ==
    [][/\ telemetry.mInitialized <=> lifecycle = "Initialized"
       /\ lifecycle' # lifecycle
             => \/ /\ lifecycle \in {"Uninitialized", "Deinitialized"}
                   /\ lifecycle' = "Initialized"
                   /\ Called("Initialize")
                   /\ telemetry'.mInitialized /\ telemetry'.mTimerRunning
                   /\ telEvent'.schedules = 1
                   /\ telemetry'.mTimerHandler = 1
                   /\ telEvent'.revokes = 0
                   /\ telEvent'.flushes = 0
                \/ /\ lifecycle = "Initialized"
                   /\ lifecycle' = "Deinitialized"
                   /\ Called("Deinitialize")
                   /\ ~telemetry'.mInitialized /\ ~telemetry'.mTimerRunning
                   /\ telEvent'.revokes = 1
                   /\ telemetry'.mTimerHandler = 0
                   /\ telEvent'.schedules = 0
                   /\ telEvent'.flushes = 1
       /\ Called("Initialize") /\ telemetry.mInitialized => NoEffect
       /\ Called("Deinitialize") /\ ~telemetry.mInitialized => NoEffect
       /\ Called("Initialize") /\ ~telemetry.mInitialized
             => lifecycle' = "Initialized"
       /\ Called("Deinitialize") /\ telemetry.mInitialized
             => lifecycle' = "Deinitialized"]_vars

\* an initialized aggregator holding two samples was deinitialized: the timer
\* was revoked and the one final flush sent them
WitnessC15_FinalFlush ==
    /\ lifecycle = "Deinitialized"
    /\ telEvent.op = "Deinitialize"
    /\ telEvent.revokes = 1
    /\ telEvent.flushes = 1
    /\ telemetry.mTimerHandler = 0
    /\ ~telemetry.mInitialized
    /\ BagCardinality(telEvent.samples) = 2
    /\ telEvent.sent # EmptyBag

\* the interval counters are 0 and every aggregation map is empty
IntervalEmpty(t) ==
    /\ t.mHealthStats.totalCalls = 0
    /\ t.mHealthStats.successfulCalls = 0
    /\ t.mHealthStats.failedCalls = 0
    /\ t.mCachedEventCount = 0
    /\ DOMAIN t.mApiMethodStats = {}
    /\ DOMAIN t.mServiceMethodStats = {}
    /\ DOMAIN t.mApiLatencyStats = {}
    /\ DOMAIN t.mServiceLatencyStats = {}
    /\ DOMAIN t.mMetricsCache = {}
    /\ DOMAIN t.mApiErrorCounts = {}
    /\ DOMAIN t.mExternalServiceErrorCounts = {}

\* Claim C16: right after FlushTelemetryData returns, and right after a
\* call that ran it returns, with no recorder running concurrently, the
\* three call counters and the cached event count are 0 and every
\* aggregation map is empty, while the websocket-connections gauge, the
\* cumulative bootstrap total and the bootstrap plugin count are what they
\* were when FlushTelemetryData was entered.
TheoremC16_FlushResetsIntervalOnly ==
    [][telEvent'.flushes > 0
          => /\ flushing.pc \in {"storing", "reset"}
             /\ IntervalEmpty(telemetry')
             /\ KeptOf(telemetry') = flushing.entry]_vars

\* a flush of an interval with one call counted, while one connection is
\* open and one plugin has reported its bootstrap time: the health payload
\* went out and the gauge and the bootstrap totals are still there
WitnessC16_FlushKeptGaugeAndBootstrap ==
    /\ telEvent.flushes = 1
    /\ \E e \in BagToSet(telEvent.sent) :
          /\ e.marker = AGW_MARKER_HEALTH_STATS
          /\ e.payload.total_calls = 1
          /\ e.payload.websocket_connections = 1
    /\ IntervalEmpty(telemetry)
    /\ telemetry.mHealthStats.websocketConnections = 1
    /\ telemetry.mBootstrapPluginsLoaded = 1
    /\ telemetry.mTotalBootstrapTimeMs = 5

\* Claim C17: under any interleaving of concurrent
\* IncrementWebSocketConnections and DecrementWebSocketConnections calls the
\* websocket-connections gauge never wraps around below zero.
ClaimC17_GaugeNeverWraps ==
    ~Wrapped(telemetry.mHealthStats.websocketConnections)

\* the part of claim C17 that holds: a decrement whose fetch_sub finds the
\* gauge as its load left it takes 1 from a positive gauge and leaves a
\* gauge of zero at zero
GaugeStaysAtZeroWhenAlone ==
    [][\A t \in Threads :
          /\ decrementing[t].pc = "loaded" /\ decrementing'[t].pc = "idle"
          /\ decrementing[t].current = telemetry.mHealthStats.websocketConnections
          => /\ Called("DecrementWebSocketConnections")
             /\ telemetry'.mHealthStats.websocketConnections
                    = IF decrementing[t].current > 0
                      THEN decrementing[t].current - 1 ELSE 0]_vars

\* two decrementing threads both read a gauge of 1, and the second
\* fetch_sub took it from 0 to 4294967295
GaugeWrapped ==
    /\ Wrapped(telemetry.mHealthStats.websocketConnections)
    /\ telEvent.op = "DecrementWebSocketConnections"

\* the (plugin, method) bucket a sample was recorded for
BucketOf(sample) == <<sample.pluginName, sample.methodName>>

\* the distinct samples of a bag recorded for a bucket on one side
SamplesIn(samples, bucket, isError) ==
    {s \in BagToSet(samples) : BucketOf(s) = bucket /\ s.isError = isError}

\* the map key RecordApiMethodMetric builds for a sample
ApiKeyOf(sample) == sample.pluginName \o Underscore \o sample.methodName

\* the distinct samples of a bag that went into the map entry of a key on
\* one side
SamplesUnder(samples, apiKey, isError) ==
    {s \in BagToSet(samples) : ApiKeyOf(s) = apiKey /\ s.isError = isError}

RECURSIVE CountOf(_, _)
\* how many samples of the bag the set S stands for
CountOf(samples, S) ==
    IF S = {} THEN 0
    ELSE LET s == CHOOSE s \in S : TRUE
         IN  samples[s] + CountOf(samples, S \ {s})

RECURSIVE SumOf(_, _)
\* the sum of the latencies of the samples of the bag the set S stands for
SumOf(samples, S) ==
    IF S = {} THEN 0
    ELSE LET s == CHOOSE s \in S : TRUE
         IN  samples[s] * s.latencyMs + SumOf(samples, S \ {s})

SmallestOf(S) == CHOOSE v \in {s.latencyMs : s \in S} : \A s \in S : v <= s.latencyMs
LargestOf(S) == CHOOSE v \in {s.latencyMs : s \in S} : \A s \in S : v >= s.latencyMs

\* the API-method payloads of a flush
ApiMethodEvents(sent) ==
    {e \in BagToSet(sent) : e.marker = AGW_MARKER_API_METHOD_STAT}

\* the API-method payloads of a flush that name a (plugin, method) bucket
PayloadsFor(sent, bucket) ==
    {e \in ApiMethodEvents(sent) :
        <<e.payload.plugin_name, e.payload.method_name>> = bucket}

\* the API-method payloads of a flush whose names make a map key
PayloadsUnder(sent, apiKey) ==
    {e \in ApiMethodEvents(sent) :
        e.payload.plugin_name \o Underscore \o e.payload.method_name = apiKey}

\* the count, minimum, maximum and average one side of a payload reports
SideOf(payload, isError) ==
    IF isError
    THEN [count |-> payload.error_count, min |-> payload.error_latency_min_ms,
          max |-> payload.error_latency_max_ms,
          avg |-> payload.error_latency_avg_ms]
    ELSE [count |-> payload.success_count, min |-> payload.success_latency_min_ms,
          max |-> payload.success_latency_max_ms,
          avg |-> payload.success_latency_avg_ms]

\* the payloads P, each sent once, report the samples S of the bag on one
\* side: their number, the smallest, the largest and their sum over their
\* number, with min <= avg <= max
Reports(P, sent, samples, S, isError) ==
    LET N == CountOf(samples, S)
        sum == SumOf(samples, S)
    IN  /\ N >= 1
        /\ Cardinality(P) = 1
        /\ \A e \in P :
             LET side == SideOf(e.payload, isError)
             IN  /\ sent[e] = 1
                 /\ side.count = N
                 /\ side.min = SmallestOf(S)
                 /\ side.max = LargestOf(S)
                 /\ side.avg = Quotient(sum, N)
                 /\ side.min * side.avg.den <= side.avg.num
                 /\ side.avg.num <= side.max * side.avg.den

\* Claim C18: when N >= 1 success (or error) samples were recorded into one
\* (plugin, method) bucket since the last flush, the flush sends exactly one
\* payload for that bucket, whose success (error) count is N, whose min and
\* max are the smallest and the largest of the samples, and whose avg is
\* their sum over N, with min <= avg <= max.
ClaimC18_OnePayloadPerBucket ==
    telEvent.flushes > 0
        => \A sample \in BagToSet(telEvent.samples) :
             Reports(PayloadsFor(telEvent.sent, BucketOf(sample)),
                     telEvent.sent, telEvent.samples,
                     SamplesIn(telEvent.samples, BucketOf(sample),
                               sample.isError),
                     sample.isError)

\* what the code keeps: the flush sends exactly one payload for each entry
\* of the API-method map, which reports the samples whose plugin name, "_"
\* and method name make the key of the entry, whichever pair they were
\* recorded for
OnePayloadPerKey ==
    telEvent.flushes > 0
        => \A sample \in BagToSet(telEvent.samples) :
             Reports(PayloadsUnder(telEvent.sent, ApiKeyOf(sample)),
                     telEvent.sent, telEvent.samples,
                     SamplesUnder(telEvent.samples, ApiKeyOf(sample),
                                  sample.isError),
                     sample.isError)

\* a flush after the sample 1 ms for ("a", "b_c") and the sample 3 ms for
\* ("a_b", "c"): the one payload sent names ("a", "b_c") and reports 2
\* samples with min 1 and max 3, and no payload names ("a_b", "c")
OneSampleReportedAsTwo ==
    /\ telEvent.flushes = 1
    /\ telEvent.samples =
           SetToBag({ApiSample(PluginA, MethodBC, FALSE, 1),
                     ApiSample(PluginAB, MethodC, FALSE, 3)})
    /\ PayloadsFor(telEvent.sent, <<PluginAB, MethodC>>) = {}
    /\ \E e \in PayloadsFor(telEvent.sent, <<PluginA, MethodBC>>) :
          /\ e.payload.success_count = 2
          /\ e.payload.success_latency_min_ms = 1
          /\ e.payload.success_latency_max_ms = 3

\* a flush of an interval in which one bucket got the success samples 1 ms
\* and 3 ms: one payload, count 2, min 1, max 3, avg 4/2
TwoSamplesOneBucket ==
    /\ telEvent.flushes = 1
    /\ BagCardinality(telEvent.samples) = 2
    /\ \E e \in BagToSet(telEvent.sent) :
          /\ e.marker = AGW_MARKER_API_METHOD_STAT
          /\ e.payload.plugin_name = PluginA
          /\ e.payload.method_name = MethodBC
          /\ e.payload.success_count = 2
          /\ e.payload.success_latency_min_ms = 1
          /\ e.payload.success_latency_max_ms = 3
          /\ e.payload.success_latency_avg_ms = Quotient(4, 2)
          /\ e.payload.error_count = 0
    /\ \A s \in BagToSet(telEvent.samples) :
          s.pluginName = PluginA /\ s.methodName = MethodBC /\ ~s.isError

\* every counter of the map m is still in the map n, and not lower there
CountsKept(m, n, Count(_)) ==
    \A key \in DOMAIN m : key \in DOMAIN n /\ Count(n[key]) >= Count(m[key])

SuccessCount(stats) == stats.successCount
ErrorCount(stats) == stats.errorCount
SampleCount(stats) == stats.count
Occurrences(n) == n

\* no interval counter of the aggregator t is lower in the aggregator u
IntervalCountersKept(t, u) ==
    /\ u.mHealthStats.totalCalls >= t.mHealthStats.totalCalls
    /\ u.mHealthStats.successfulCalls >= t.mHealthStats.successfulCalls
    /\ u.mHealthStats.failedCalls >= t.mHealthStats.failedCalls
    /\ u.mCachedEventCount >= t.mCachedEventCount
    /\ CountsKept(t.mApiMethodStats, u.mApiMethodStats, SuccessCount)
    /\ CountsKept(t.mApiMethodStats, u.mApiMethodStats, ErrorCount)
    /\ CountsKept(t.mServiceMethodStats, u.mServiceMethodStats, SuccessCount)
    /\ CountsKept(t.mServiceMethodStats, u.mServiceMethodStats, ErrorCount)
    /\ CountsKept(t.mApiLatencyStats, u.mApiLatencyStats, SampleCount)
    /\ CountsKept(t.mServiceLatencyStats, u.mServiceLatencyStats, SampleCount)
    /\ CountsKept(t.mMetricsCache, u.mMetricsCache, SampleCount)
    /\ CountsKept(t.mApiErrorCounts, u.mApiErrorCounts, Occurrences)
    /\ CountsKept(t.mExternalServiceErrorCounts, u.mExternalServiceErrorCounts,
                  Occurrences)

\* Claim C19: a step that is not a flush leaves totalCalls, successfulCalls,
\* failedCalls, each per-key success, error and latency count, each
\* error-occurrence count and the cached event count at least as high as
\* they were.  The steps of a flush that lower a counter are the stores of
\* its ResetHealthStats and the Reset* calls after them; every other step,
\* those of a flush before its resets included, is held to the claim.
TheoremC19_CountersGrowBetweenFlushes ==
    [][flushing.pc # "storing"
          => /\ telEvent'.flushes = 0 \/ flushing.pc = "reset"
             /\ IntervalCountersKept(telemetry, telemetry')]_vars

\* an error event recorded on top of an error already counted: it was sent at
\* once, the occurrence count went from 1 to 2, and nothing was flushed
WitnessC19_SecondErrorCounted ==
    /\ telEvent.op = "RecordTelemetryEvent"
    /\ telEvent.flushes = 0
    /\ BagCardinality(telEvent.sent) = 1
    /\ MethodC \in DOMAIN telemetry.mApiErrorCounts
    /\ telemetry.mApiErrorCounts[MethodC] = 2

\* an aggregate with at least one sample has min <= max, and one with no
\* sample has sum 0
WellFormed(count, sum, min, max) ==
    /\ count >= 1 => min <= max
    /\ count = 0 => sum = 0

\* both sides of a method stat are well formed
MethodStatWellFormed(stats) ==
    /\ WellFormed(stats.successCount, stats.totalSuccessLatencyMs,
                  stats.minSuccessLatencyMs, stats.maxSuccessLatencyMs)
    /\ WellFormed(stats.errorCount, stats.totalErrorLatencyMs,
                  stats.minErrorLatencyMs, stats.maxErrorLatencyMs)

LatencyStatWellFormed(stats) ==
    WellFormed(stats.count, stats.totalLatencyMs, stats.minLatencyMs,
               stats.maxLatencyMs)

\* Claim C20: in every reachable state each success or error side of a
\* method stat, each latency stat and each generic metric that has received
\* at least one sample has min <= max, and each one whose count is 0 has
\* sum 0.
TheoremC20_AggregatesWellFormed ==
    /\ \A key \in DOMAIN telemetry.mApiMethodStats :
          MethodStatWellFormed(telemetry.mApiMethodStats[key])
    /\ \A key \in DOMAIN telemetry.mServiceMethodStats :
          MethodStatWellFormed(telemetry.mServiceMethodStats[key])
    /\ \A key \in DOMAIN telemetry.mApiLatencyStats :
          LatencyStatWellFormed(telemetry.mApiLatencyStats[key])
    /\ \A key \in DOMAIN telemetry.mServiceLatencyStats :
          LatencyStatWellFormed(telemetry.mServiceLatencyStats[key])
    /\ \A name \in DOMAIN telemetry.mMetricsCache :
          LET data == telemetry.mMetricsCache[name]
          IN  WellFormed(data.count, data.sum, data.min, data.max)

\* a method stat whose success side got 3 ms and then 1 ms and whose error
\* side got nothing: min 1, max 3 on one side, count 0 and sum 0 on the other
WitnessC20_OneSideSampled ==
    \E key \in DOMAIN telemetry.mApiMethodStats :
        LET stats == telemetry.mApiMethodStats[key]
        IN  /\ stats.successCount = 2
            /\ stats.minSuccessLatencyMs = 1
            /\ stats.maxSuccessLatencyMs = 3
            /\ stats.errorCount = 0
            /\ stats.totalErrorLatencyMs = 0
            /\ stats.minErrorLatencyMs = DBL_MAX

\* the RecordTelemetryEvent, RecordTelemetryMetric or RecordBootstrapTime
\* call under way while the callers take turns (NoCall when there is none)
TheCall ==
    IF \E thread \in Callers : admitted[thread] # NoCall
    THEN admitted[CHOOSE thread \in Callers : admitted[thread] # NoCall]
    ELSE NoCall

\* the member of the event data that names what failed
ErrorField(eventName) ==
    IF eventName = AGW_MARKER_PLUGIN_API_ERROR THEN "api" ELSE "service"

\* the error-count map of the aggregator t an error event is counted in
ErrorCountsOf(t, eventName) ==
    IF eventName = AGW_MARKER_PLUGIN_API_ERROR THEN t.mApiErrorCounts
    ELSE t.mExternalServiceErrorCounts

\* the name the flush reports an error counter under
ErrorMetricName(eventName, key) ==
    (IF eventName = AGW_MARKER_PLUGIN_API_ERROR
     THEN AGW_METRIC_API_ERROR_COUNT_PREFIX
     ELSE AGW_METRIC_EXT_SERVICE_ERROR_COUNT_PREFIX) \o key \o AGW_METRIC_SUFFIX

\* the counter of a key, 0 when the map has none
CountAt(m, key) == IF key \in DOMAIN m THEN m[key] ELSE 0

\* the map n is the map m with one more occurrence under key
OneMoreAt(m, n, key) ==
    /\ DOMAIN n = DOMAIN m \cup {key}
    /\ n[key] = CountAt(m, key) + 1
    /\ \A other \in DOMAIN m \ {key} : n[other] = m[other]

\* the key an error event is counted under: the api (resp. service) member
\* of its data, the event name when the data has no such member
ErrorKey(eventName, eventData) ==
    IF ErrorField(eventName) \in DOMAIN eventData
    THEN eventData[ErrorField(eventName)]
    ELSE eventName

\* the error counters change by one occurrence at a time between flushes,
\* counted by an error event or by RecordApiError or
\* RecordExternalServiceErrorInternal; a flush emits, for every key counted,
\* exactly one payload, which carries that key's counter, and leaves the
\* counters empty
ErrorCountsFlushed ==
    \A eventName \in ErrorMarkers :
        LET before == ErrorCountsOf(telemetry, eventName)
            after == ErrorCountsOf(telemetry', eventName)
        IN  /\ telEvent'.flushes = 0 /\ after # before
               => /\ \E key \in DOMAIN after : OneMoreAt(before, after, key)
                  /\ \/ \E thread \in Callers :
                            /\ admitted[thread].pc = "tested"
                            /\ admitted'[thread].pc = "counted"
                            /\ admitted[thread].name = eventName
                     \/ Called("RecordApiError")
                     \/ Called("RecordExternalServiceErrorInternal")
            /\ telEvent'.flushes > 0
               => /\ DOMAIN after = {}
                  /\ \A key \in DOMAIN before :
                        LET P == {e \in BagToSet(telEvent'.sent) :
                                     e.marker = ErrorMetricName(eventName, key)}
                        IN  /\ Cardinality(P) = 1
                            /\ \A e \in P :
                                  /\ telEvent'.sent[e] = 1
                                  /\ e.payload.sum = before[key]

\* a step of the error event `call` of a thread: it counts, adding exactly 1
\* to the counter of its key, changing no other error counter and not the
\* cached event count, and sending nothing; or, having counted, it sends
\* exactly that event, once, and returns ERROR_NONE, changing nothing and
\* without flushing
ErrorEventStep(thread, call) ==
    \/ /\ call.pc = "tested"
       /\ admitted'[thread] = [call EXCEPT !.pc = "counted"]
       /\ OneMoreAt(ErrorCountsOf(telemetry, call.name),
                    ErrorCountsOf(telemetry', call.name),
                    ErrorKey(call.name, call.data))
       /\ \A other \in ErrorMarkers \ {call.name} :
             ErrorCountsOf(telemetry', other) = ErrorCountsOf(telemetry, other)
       /\ telemetry'.mCachedEventCount = telemetry.mCachedEventCount
       /\ telEvent'.sent = EmptyBag
       /\ telEvent'.flushes = 0
    \/ /\ call.pc = "counted"
       /\ admitted'[thread] = NoCall
       /\ Called("RecordTelemetryEvent")
       /\ telEvent'.sent = SetToBag({T2Event(call.name, call.data)})
       /\ telEvent'.flushes = 0
       /\ telEvent'.hresult = ERROR_NONE
       /\ telemetry' = telemetry

\* Claim C21, amended: each RecordTelemetryEvent that reads the aggregator
\* as initialized and whose name is the API-error or the
\* external-service-error marker adds exactly 1 to the error counter keyed
\* by the api (resp. service) member of its data (by the event name when
\* the data has no such member), changes no other error counter and leaves
\* the cached event count unchanged, then sends exactly that event, once,
\* before it returns, without flushing, whatever other threads do in
\* between.  Between two flushes the error counters change in no other way
\* than by one occurrence at a time, a flush leaves them empty, and a flush
\* emits, for every key counted, exactly one payload, which carries that
\* key's counter: the number of occurrences since the previous flush.
TheoremC21_ErrorEventsSentAndCounted ==
    [][/\ \A thread \in Callers :
            (/\ admitted[thread].op = "RecordTelemetryEvent"
             /\ admitted[thread].name \in ErrorMarkers
             /\ admitted'[thread] # admitted[thread])
               => ErrorEventStep(thread, admitted[thread])
       /\ ErrorCountsFlushed]_vars

\* Claim C21 as stated: each RecordTelemetryEvent whose name is the
\* API-error or the external-service-error marker sends that event to the
\* sink exactly once before it returns, whether it found the aggregator
\* initialized or not, and increments by exactly 1 the error counter of its
\* key; the next flush emits one payload per such key carrying the number
\* of occurrences since the previous flush.  (Every RecordTelemetryEvent of
\* SpecErrors has an error marker as name.)
ClaimC21_EveryErrorEventSent ==
    [][/\ \A thread \in Callers :
            (/\ admitted[thread].op = "RecordTelemetryEvent"
             /\ admitted[thread].name \in ErrorMarkers
             /\ admitted'[thread] # admitted[thread])
               => ErrorEventStep(thread, admitted[thread])
       /\ Called("RecordTelemetryEvent")
             => /\ BagCardinality(telEvent'.sent) = 1
                /\ telEvent'.hresult = ERROR_NONE
       /\ ErrorCountsFlushed]_vars

\* two threads were inside an external-service-error event for the same
\* service at once: both have counted, the counter of the service being 2,
\* one has sent its event and returned and the other has yet to send, and
\* nothing is cached
WitnessC21_SecondServiceErrorSent ==
    /\ telEvent.op = "RecordTelemetryEvent"
    /\ telEvent.sent =
           SetToBag({T2Event(AGW_MARKER_PLUGIN_EXT_SERVICE_ERROR,
                             [api |-> MethodC, service |-> ServiceS])})
    /\ telEvent.flushes = 0
    /\ ServiceS \in DOMAIN telemetry.mExternalServiceErrorCounts
    /\ telemetry.mExternalServiceErrorCounts[ServiceS] = 2
    /\ telemetry.mCachedEventCount = 0
    /\ \E thread \in Callers :
          /\ admitted[thread].pc = "counted"
          /\ admitted[thread].name = AGW_MARKER_PLUGIN_EXT_SERVICE_ERROR

\* a RecordTelemetryEvent with an error marker on an aggregator that is not
\* initialized: ERROR_UNAVAILABLE, nothing sent and nothing counted
ErrorEventRefused ==
    /\ telEvent.op = "RecordTelemetryEvent"
    /\ telEvent.hresult = "ERROR_UNAVAILABLE"
    /\ telEvent.sent = EmptyBag
    /\ ~telemetry.mInitialized
    /\ DOMAIN telemetry.mApiErrorCounts = {}
    /\ DOMAIN telemetry.mExternalServiceErrorCounts = {}

\* the call that returns with the step cached something or flushed
CachedOrFlushed ==
    \/ telemetry'.mCachedEventCount # telemetry.mCachedEventCount
    \/ TheCall.pc = "recorded"
    \/ telEvent'.flushes > 0

\* Claim C22: whenever a RecordTelemetryEvent or RecordTelemetryMetric call
\* brings the cached event count to the cache threshold or above, a flush
\* runs before the call returns, so that after a call that cached something
\* has returned the cached event count is below the threshold.
ClaimC22_FlushAtThreshold ==
    [][(Called("RecordTelemetryEvent") \/ Called("RecordTelemetryMetric"))
          /\ CachedOrFlushed
          => telemetry'.mCachedEventCount < telemetry'.mCacheThreshold]_vars

\* the part of claim C22 that holds: the claim for every call except a
\* RecordTelemetryMetric of the bootstrap-duration name, which is the one
\* call that adds two generic metrics to the cache
FlushAtThresholdUnlessBootstrap ==
    [][(Called("RecordTelemetryEvent") \/ Called("RecordTelemetryMetric"))
          /\ CachedOrFlushed
          /\ TheCall.pc # "duration"
          => telemetry'.mCachedEventCount < telemetry'.mCacheThreshold]_vars

\* a RecordTelemetryMetric call has returned and left the cached event count
\* at the cache threshold, without a flush
ThresholdReachedWithoutFlush ==
    /\ telEvent.op = "RecordTelemetryMetric"
    /\ telEvent.flushes = 0
    /\ telemetry.mInitialized
    /\ telemetry.mCachedEventCount >= telemetry.mCacheThreshold
    /\ AGW_MARKER_BOOTSTRAP_DURATION \in DOMAIN telemetry.mMetricsCache

\* Claim C23: a RecordTelemetryEvent or RecordTelemetryMetric call on an
\* aggregator that is not initialized (never initialized, deinitialized, or
\* deinitialized by another thread while the call was running) changes no
\* counter and no aggregation map and sends nothing to the sink.
ClaimC23_UninitializedCallsAreNoOps ==
    [][(Called("RecordTelemetryEvent") \/ Called("RecordTelemetryMetric"))
          /\ ~telemetry.mInitialized
          => NoEffect]_vars

\* the part of claim C23 that holds: a call that reads mInitialized as false
\* returns ERROR_UNAVAILABLE and has done nothing
RefusedCallsAreNoOps ==
    [][telEvent'.hresult = "ERROR_UNAVAILABLE"
          => /\ Called("RecordTelemetryEvent") \/ Called("RecordTelemetryMetric")
             /\ ~telemetry.mInitialized
             /\ NoEffect]_vars

\* a RecordTelemetryEvent call that passed the mInitialized test before
\* Deinitialize ran has counted an API error and sent the event on the
\* deinitialized aggregator
RecordedAfterDeinitialize ==
    /\ lifecycle = "Deinitialized"
    /\ ~telemetry.mInitialized
    /\ telEvent.op = "RecordTelemetryEvent"
    /\ BagCardinality(telEvent.sent) = 1
    /\ MethodC \in DOMAIN telemetry.mApiErrorCounts

\* the metric name is "AppGw_PluginName_" P tag N suffix with P and N
\* non-empty (k is where the tag starts)
Fits(metricName, tag, suffix) ==
    LET n == Len(metricName)
        pre == Len(PluginNamePrefix)
        suf == Len(suffix)
    IN  /\ n >= pre + suf
        /\ SubSeq(metricName, 1, pre) = PluginNamePrefix
        /\ SubSeq(metricName, n - suf + 1, n) = suffix
        /\ \E k \in (pre + 2)..(n - suf - Len(tag)) :
              SubSeq(metricName, k, k + Len(tag) - 1) = tag

\* the aggregation map claim C24 names for a metric name; a name that fits
\* two patterns goes by the first of them
TargetMap(metricName) ==
    IF \E suffix \in {SuccessSuffix, ErrorSuffix} :
           Fits(metricName, MethodNameTag, suffix)
    THEN "mApiMethodStats"
    ELSE IF \E suffix \in {SuccessSuffix, ErrorSuffix} :
                Fits(metricName, ServiceNameTag, suffix)
    THEN "mServiceMethodStats"
    ELSE IF Fits(metricName, ApiNameTag, ApiLatencySuffix)
    THEN "mApiLatencyStats"
    ELSE IF Fits(metricName, ServiceNameTag, ServiceLatencySuffix)
    THEN "mServiceLatencyStats"
    ELSE "mMetricsCache"

\* the maps RecordTelemetryMetric aggregates into, and the two error-count maps
AggregationMaps ==
    {"mApiMethodStats", "mServiceMethodStats", "mApiLatencyStats",
     "mServiceLatencyStats", "mMetricsCache"}
ErrorCountMaps == {"mApiErrorCounts", "mExternalServiceErrorCounts"}

\* the marker a flush reports an entry of an aggregation map under
MarkerOf(map, metricName) ==
    CASE map = "mApiMethodStats" -> AGW_MARKER_API_METHOD_STAT
      [] map = "mServiceMethodStats" -> AGW_MARKER_SERVICE_METHOD_STAT
      [] map = "mApiLatencyStats" -> AGW_MARKER_API_LATENCY
      [] map = "mServiceLatencyStats" -> AGW_MARKER_SERVICE_LATENCY
      [] OTHER -> metricName

\* the map n is the map m but for one entry, new or changed
OneEntryUpdated(m, n) ==
    \E key \in DOMAIN n :
        /\ DOMAIN n = DOMAIN m \cup {key}
        /\ key \in DOMAIN m => n[key] # m[key]
        /\ \A other \in DOMAIN m \ {key} : n[other] = m[other]

\* Claim C24: each RecordTelemetryMetric call on an initialized aggregator
\* with a name other than the bootstrap-duration name updates one entry of
\* exactly one aggregation map and leaves the other maps unchanged: the
\* API-method map for AppGw_PluginName_<P>_MethodName_<M>_Success|Error_split,
\* the service-method map for ..._ServiceName_<S>_Success|Error_split, the
\* API-latency map for ..._ApiName_<A>_ApiLatency_split, the service-latency
\* map for ..._ServiceName_<S>_ServiceLatency_split (P and the second name
\* non-empty), and for every other name the generic map, under the full
\* metric name.  When the call reaches the cache threshold the maps are
\* flushed inside the call: the flush reports the entry under the marker of
\* that map, reports nothing for another map that was empty before the
\* call, and leaves every map empty.
TheoremC24_OneMapPerMetric ==
    [][\A input \in DispatchInputs :
          /\ TheCall.op = "RecordTelemetryMetric"
          /\ TheCall.name = input[1] /\ TheCall.value = input[2]
          /\ TheCall' # TheCall
          /\ TheCall.pc = "tested" \/ telEvent'.flushes > 0
          => LET target == TargetMap(input[1])
             IN  IF telEvent'.flushes = 0
                 THEN /\ OneEntryUpdated(telemetry[target], telemetry'[target])
                      /\ \A other \in (AggregationMaps \ {target})
                                          \cup ErrorCountMaps :
                            telemetry'[other] = telemetry[other]
                      /\ target = "mMetricsCache"
                            => /\ input[1] \in DOMAIN telemetry'.mMetricsCache
                               /\ telemetry'.mMetricsCache[input[1]]
                                     # IF input[1] \in DOMAIN telemetry.mMetricsCache
                                       THEN telemetry.mMetricsCache[input[1]]
                                       ELSE NewMetricData
                 ELSE /\ \E e \in BagToSet(telEvent'.sent) :
                            e.marker = MarkerOf(target, input[1])
                      /\ \A map \in AggregationMaps :
                            /\ DOMAIN telemetry[map] = {}
                                  => \A e \in BagToSet(telEvent'.sent) :
                                        map # target
                                           => e.marker # MarkerOf(map, input[1])
                            /\ DOMAIN telemetry'[map] = {}]_vars

\* a metric whose name holds both the method tag and the service tag went
\* into the API-method map, and a metric whose name has no plugin part went
\* into the generic map under its full name; the other maps are empty
WitnessC24_NearMissesDispatched ==
    /\ telEvent.op = "RecordTelemetryMetric"
    /\ telEvent.flushes = 0
    /\ DOMAIN telemetry.mApiMethodStats =
           {PluginA \o Underscore \o MethodC \o ServiceNameTag \o ServiceS}
    /\ DOMAIN telemetry.mMetricsCache = {ApiMetricName(<<>>, MethodC, FALSE)}
    /\ DOMAIN telemetry.mServiceMethodStats = {}
    /\ DOMAIN telemetry.mApiLatencyStats = {}
    /\ DOMAIN telemetry.mServiceLatencyStats = {}

(***************************************************************************)
(* Properties of the compact telemetry format                              *)
(***************************************************************************)

\* the text claim C25 gives a string, number or boolean leaf, at the top
\* level or inside an array element
LeafText(value) ==
    IF value.type = "STRING" THEN value.string
    ELSE IF value.type = "NUMBER"
    THEN (IF value.number % 1000 = 0 THEN IntegralText(value.number)
          ELSE FixedText(value.number))
    ELSE IF value.type = "BOOLEAN" THEN BooleanText(value.boolean)
    ELSE <<>>

\* the group "(v1,v2,...)" claim C25 gives an array element
ClaimedGroup(object) ==
    <<"(">> \o JoinWith(TextsOf(ValuesOf(object), LeafText), Comma) \o <<")">>

\* the field claim C25 gives a top-level member
ClaimedField(value) ==
    IF value.type = "ARRAY"
    THEN JoinWith(TextsOf(value.array, ClaimedGroup), Comma)
    ELSE LeafText(value)

\* the compact text claim C25 describes
ClaimedCompact(jsonPayload) ==
    JoinWith(TextsOf(ValuesOf(jsonPayload), ClaimedField), Comma)

\* the last call formatted a payload in COMPACT format
FormattedCompact ==
    formatted.format = "COMPACT"

\* Claim C25: in COMPACT format the output of FormatTelemetryPayload is the
\* comma-separated list of one field per top-level member in iteration
\* order, where a string is its text, an integral number has no decimal
\* point, a non-integral number has two decimals, a boolean is true or
\* false, and an array of objects is one parenthesised group (v1,v2,...) per
\* element holding the element's values in order, so that every string,
\* number and boolean leaf, nested or not, is in the output exactly once.
ClaimC25_CompactKeepsEveryLeaf ==
    FormattedCompact
        => formatted.payloadStr = ClaimedCompact(formatted.jsonPayload)

\* a boolean is a member of an element of an array of the payload
HasNestedBoolean(jsonPayload) ==
    \E i \in 1..Len(jsonPayload) :
        /\ jsonPayload[i].value.type = "ARRAY"
        /\ \E j \in 1..Len(jsonPayload[i].value.array) :
              \E k \in 1..Len(jsonPayload[i].value.array[j]) :
                  jsonPayload[i].value.array[j][k].value.type = "BOOLEAN"

\* the part of claim C25 that holds: the claim for payloads in which no
\* array element has a boolean member
CompactKeepsLeavesOutsideArrays ==
    FormattedCompact /\ ~HasNestedBoolean(formatted.jsonPayload)
        => formatted.payloadStr = ClaimedCompact(formatted.jsonPayload)

\* the payload {"k1":[{"avg":2.718,"ok":true}]} was formatted as "(2.72,)":
\* the boolean of the array element is not in the output
NestedBooleanDropped ==
    /\ FormattedCompact
    /\ formatted.jsonPayload = <<Member(KeyAt(1), JArray(<<ElementFlag>>))>>
    /\ formatted.payloadStr = <<"(", "2", ".", "7", "2", ",", ")">>

(***************************************************************************)
(* Properties of the bootstrap totals                                      *)
(***************************************************************************)

\* the step is the first or the second fetch_add of a bootstrap report, one
\* that was not refused
CountedPlugin == TheCall.pc # "plugins" /\ TheCall'.pc = "plugins"
AddedDuration == TheCall.pc = "plugins" /\ TheCall'.pc = "total"

\* each report adds 1 to the plugin count and then its duration to the
\* cumulative total, and no other step changes either: after the reports
\* d1..dk the total is d1+...+dk and the count is k
BootstrapTotalsAccumulate ==
    [][/\ telemetry'.mBootstrapPluginsLoaded
             = telemetry.mBootstrapPluginsLoaded + IF CountedPlugin THEN 1 ELSE 0
       /\ telemetry'.mTotalBootstrapTimeMs
             = telemetry.mTotalBootstrapTimeMs
                   + IF AddedDuration THEN TheCall.value ELSE 0
       /\ TheCall.pc = "duration" /\ TheCall' = NoCall
             => /\ TheCall.value \in ReportedDurations
                /\ TheCall.totalTime = telemetry'.mTotalBootstrapTimeMs
                /\ TheCall.pluginCount = telemetry'.mBootstrapPluginsLoaded]_vars

\* the payloads a flush sent under a marker
SentUnder(sent, marker) == {e \in BagToSet(sent) : e.marker = marker}

\* a bootstrap report is waiting in the cache for the next flush
BootstrapCached(t) == AGW_MARKER_BOOTSTRAP_DURATION \in DOMAIN t.mMetricsCache

\* Claim C26: after k plugins have reported the bootstrap durations d1..dk
\* the cumulative total is d1+...+dk and the plugin count is k (the initial
\* values are 0, and the step part is BootstrapTotalsAccumulate), and the
\* flush that follows a report sends one AppGwBootstrapDuration_split
\* payload whose sum is the cumulative total and one
\* AppGwBootstrapPluginCount_split payload whose sum is the plugin count.
ClaimC26_FlushReportsCumulativeTotal ==
    [][telEvent'.flushes > 0 /\ BootstrapCached(telemetry)
          => /\ \E e \in SentUnder(telEvent'.sent, AGW_MARKER_BOOTSTRAP_DURATION) :
                   telEvent'.sent[e] = 1
             /\ \A e \in SentUnder(telEvent'.sent, AGW_MARKER_BOOTSTRAP_DURATION) :
                   e.payload.sum = telemetry.mTotalBootstrapTimeMs
             /\ \E e \in SentUnder(telEvent'.sent,
                                   AGW_MARKER_BOOTSTRAP_PLUGIN_COUNT) :
                   telEvent'.sent[e] = 1
             /\ \A e \in SentUnder(telEvent'.sent,
                                   AGW_MARKER_BOOTSTRAP_PLUGIN_COUNT) :
                   e.payload.sum = telemetry.mBootstrapPluginsLoaded]_vars

\* the part of the flush claim that holds: the two payloads are sent, once
\* each, and their max members are the cumulative total and the plugin count
FlushReportsCumulativeTotalAsMax ==
    [][telEvent'.flushes > 0 /\ BootstrapCached(telemetry)
          => /\ \E e \in SentUnder(telEvent'.sent, AGW_MARKER_BOOTSTRAP_DURATION) :
                   telEvent'.sent[e] = 1
             /\ \A e \in SentUnder(telEvent'.sent, AGW_MARKER_BOOTSTRAP_DURATION) :
                   e.payload.max = telemetry.mTotalBootstrapTimeMs
             /\ \E e \in SentUnder(telEvent'.sent,
                                   AGW_MARKER_BOOTSTRAP_PLUGIN_COUNT) :
                   telEvent'.sent[e] = 1
             /\ \A e \in SentUnder(telEvent'.sent,
                                   AGW_MARKER_BOOTSTRAP_PLUGIN_COUNT) :
                   e.payload.max = telemetry.mBootstrapPluginsLoaded]_vars

\* two plugins reported 5 ms and 7 ms before a flush: the cumulative total
\* is 12 and the plugin count 2, and the flush sent the sums 17 and 3
BootstrapSumsCountedTwice ==
    /\ telEvent.flushes = 1
    /\ telemetry.mTotalBootstrapTimeMs = 12
    /\ telemetry.mBootstrapPluginsLoaded = 2
    /\ \E e \in SentUnder(telEvent.sent, AGW_MARKER_BOOTSTRAP_DURATION) :
          e.payload.sum = 17 /\ e.payload.count = 2
    /\ \E e \in SentUnder(telEvent.sent, AGW_MARKER_BOOTSTRAP_PLUGIN_COUNT) :
          e.payload.sum = 3 /\ e.payload.count = 2


(***************************************************************************)
(* Properties of the lifecycle delegate                                    *)
(***************************************************************************)

\* the lowercase name of a lifecycle state
LowercaseName ==
    [UNLOADED |-> "unloaded", LOADING |-> "loading",
     INITIALIZING |-> "initializing", PAUSED |-> "paused", ACTIVE |-> "active",
     SUSPENDED |-> "suspended", HIBERNATED |-> "hibernated",
     TERMINATING |-> "terminating"]

\* the payload {"oldState": name(old), "newState": name(new)}
StateChangePayload(old, new) ==
    <<"{ \"oldState\": \"", LowercaseName[old], "\", \"newState\": \"",
      LowercaseName[new], "\" }">>

LegacyEvents ==
    {"Lifecycle.onInactive", "Lifecycle.onSuspended", "Lifecycle.onUnloading",
     "Lifecycle.onForeground", "Lifecycle.onBackground"}

\* the positions, in the Dispatch calls of the last delegate call, of the
\* events named
PositionsOf(events) ==
    {k \in 1..Len(delegateCall.dispatched) :
        delegateCall.dispatched[k].event \in events}

NotificationHandled == delegateCall.op = "OnAppLifecycleStateChanged"

\* C27: for every lifecycle notification reporting a transition (old, new) of
\* an app instance, whatever the states and whether or not the instance was
\* seen before, the state cache afterwards holds {previousState: old,
\* currentState: new} for the instance, and the call dispatches exactly one
\* Lifecycle2.onStateChanged, carrying the lowercase names of old and new as
\* oldState and newState, before any legacy Lifecycle event.
ClaimC27_StateChangeCarriesReportedStates ==
    NotificationHandled =>
        /\ delegate.lifecycleStateMap[delegateCall.appInstanceId]
                = LifecycleStateInfo(delegateCall.oldLifecycleState,
                                     delegateCall.newLifecycleState)
        /\ \E k \in 1..Len(delegateCall.dispatched) :
            /\ PositionsOf({"Lifecycle2.onStateChanged"}) = {k}
            /\ delegateCall.dispatched[k].payload
                    = StateChangePayload(delegateCall.oldLifecycleState,
                                         delegateCall.newLifecycleState)
            /\ \A j \in PositionsOf(LegacyEvents) : k < j

\* What holds of every notification: the cache afterwards holds the reported
\* new state as currentState, and exactly one Lifecycle2.onStateChanged is
\* dispatched, before any legacy event, naming the cached previousState and
\* the reported new state.
StateChangeCarriesCachedStates ==
    NotificationHandled =>
        LET stateInfo == delegate.lifecycleStateMap[delegateCall.appInstanceId]
        IN  /\ stateInfo.currentState = delegateCall.newLifecycleState
            /\ \E k \in 1..Len(delegateCall.dispatched) :
                /\ PositionsOf({"Lifecycle2.onStateChanged"}) = {k}
                /\ delegateCall.dispatched[k].payload
                        = StateChangePayload(stateInfo.previousState,
                                             delegateCall.newLifecycleState)
                /\ \A j \in PositionsOf(LegacyEvents) : k < j

\* an instance reports its launch, from LOADING to INITIALIZING: the cache
\* and the event dispatched name INITIALIZING as the old state
InitializingReportedAsOldState ==
    /\ NotificationHandled
    /\ delegateCall.oldLifecycleState = "LOADING"
    /\ delegateCall.newLifecycleState = "INITIALIZING"
    /\ delegate.lifecycleStateMap[delegateCall.appInstanceId]
            = LifecycleStateInfo("INITIALIZING", "INITIALIZING")
    /\ delegateCall.dispatched[1].payload
            = StateChangePayload("INITIALIZING", "INITIALIZING")


\* the names of the legacy Lifecycle events the last delegate call dispatched,
\* in order
LegacyDispatched ==
    LET positions == PositionsOf(LegacyEvents)
        Names[k \in 0..Len(delegateCall.dispatched)] ==
            IF k = 0 THEN <<>>
            ELSE IF k \in positions
                 THEN Append(Names[k - 1], delegateCall.dispatched[k].event)
                 ELSE Names[k - 1]
    IN  Names[Len(delegateCall.dispatched)]

\* C28: for each state transition the delegate dispatches at most one legacy
\* Lifecycle event, determined by the new state: Paused -> onInactive;
\* Suspended or Hibernated -> onSuspended; Unloaded or Terminating ->
\* onUnloading; Active -> onForeground if that instance is the focused one,
\* otherwise onBackground; Loading and Initializing -> none.
TheoremC28_LegacyEventByNewState ==
    NotificationHandled =>
        LET new == delegateCall.newLifecycleState
            focused ==
                delegate.focusedAppInstanceId = delegateCall.appInstanceId
        IN  /\ Len(LegacyDispatched) <= 1
            /\ new = "PAUSED" => LegacyDispatched = <<"Lifecycle.onInactive">>
            /\ new \in {"SUSPENDED", "HIBERNATED"}
                    => LegacyDispatched = <<"Lifecycle.onSuspended">>
            /\ new \in {"UNLOADED", "TERMINATING"}
                    => LegacyDispatched = <<"Lifecycle.onUnloading">>
            /\ new = "ACTIVE" /\ focused
                    => LegacyDispatched = <<"Lifecycle.onForeground">>
            /\ new = "ACTIVE" /\ ~focused
                    => LegacyDispatched = <<"Lifecycle.onBackground">>
            /\ new \in {"LOADING", "INITIALIZING"} => LegacyDispatched = <<>>

\* the focused instance becomes Active while another instance is cached: the
\* notification dispatches Lifecycle.onForeground after the state change and
\* the navigation intent
WitnessC28_FocusedInstanceActivated ==
    /\ NotificationHandled
    /\ delegateCall.appInstanceId = "i1"
    /\ delegateCall.newLifecycleState = "ACTIVE"
    /\ delegate.focusedAppInstanceId = "i1"
    /\ "i2" \in DOMAIN delegate.lifecycleStateMap
    /\ Len(delegateCall.dispatched) = 3
    /\ delegateCall.dispatched[2].event = "Discovery.onNavigateTo"
    /\ delegateCall.dispatched[3].event = "Lifecycle.onForeground"


\* the event name is, in some letter-casing, one of the names listed
NamedIn(event, names) == \E e \in names : EqualIgnoringCase(event, e)

\* the last delegate call was a subscription request that did what is
\* expected of the names listed: accepted and applied for each of them in any
\* letter-casing, refused with no call on the subscription table for any
\* other name
AppliedOnlyFor(names) ==
    delegateCall.op = "HandleEvent" =>
        IF NamedIn(delegateCall.request.event, names)
        THEN /\ delegateCall.handled
             /\ delegateCall.tableCall
                    = (IF delegateCall.request.listen THEN "AddNotification"
                       ELSE "RemoveNotification")
             /\ <<delegateCall.request.event, delegateCall.request.cb>>
                    \in delegate.notifications
                        <=> delegateCall.request.listen
        ELSE /\ ~delegateCall.handled
             /\ delegateCall.tableCall = "none"

\* C29: HandleEvent returns true, and applies the subscribe or unsubscribe,
\* for every event of the allow-list (Lifecycle.onBackground,
\* Lifecycle.onForeground, Lifecycle.onInactive, Lifecycle.onSuspended,
\* Lifecycle.onUnloading, Lifecycle2.onStateChanged, Discovery.onNavigateTo
\* and Presentation.onFocusedChanged) in any letter-casing, and returns false
\* for every other name, leaving the subscription table as it was.
ClaimC29_AllowListAnyCasing == AppliedOnlyFor(EventsAsDocumented)

\* What holds: the same with Presentation.onFocusedChanged, the last of the
\* documented names, among the names refused.
AllowListWithoutFocusEvent ==
    AppliedOnlyFor(EventsAsDocumented \ {DocumentedEvents[8]})

\* a subscription to Presentation.onFocusedChanged, as documented, is
\* refused while another subscription is held
FocusEventRefused ==
    /\ delegateCall.op = "HandleEvent"
    /\ delegateCall.request.event = DocumentedEvents[8]
    /\ delegateCall.request.listen
    /\ ~delegateCall.handled
    /\ delegate.notifications # {}


\* the payload {"value": true} or {"value": false}
FocusPayload(value) ==
    <<"{ \"value\": ", IF value THEN "true" ELSE "false", " }">>

\* the last delegate call dispatched Presentation.onFocusedChanged with the
\* value given, followed by the legacy event named if and only if the cached
\* lifecycle state of the instance is Active, and nothing else
FocusChangeDispatched(value, legacyEvent) ==
    LET appInstanceId == delegateCall.appInstanceId
        active ==
            /\ appInstanceId \in DOMAIN delegate.lifecycleStateMap
            /\ delegate.lifecycleStateMap[appInstanceId].currentState = "ACTIVE"
    IN  /\ Len(delegateCall.dispatched) = (IF active THEN 2 ELSE 1)
        /\ delegateCall.dispatched[1].event = "Presentation.onFocusedChanged"
        /\ delegateCall.dispatched[1].payload = FocusPayload(value)
        /\ active => delegateCall.dispatched[2].event = legacyEvent

\* C30: OnFocus(i) makes i the focused instance and dispatches
\* Presentation.onFocusedChanged with value true; OnBlur(i) clears the
\* focused instance and dispatches Presentation.onFocusedChanged with value
\* false; in each case a Lifecycle.onForeground (focus) or
\* Lifecycle.onBackground (blur) follows if and only if the cached lifecycle
\* state of i is Active.
TheoremC30_FocusAndBlur ==
    /\ delegateCall.op = "OnFocus" =>
        /\ delegate.focusedAppInstanceId = delegateCall.appInstanceId
        /\ FocusChangeDispatched(TRUE, "Lifecycle.onForeground")
    /\ delegateCall.op = "OnBlur" =>
        /\ delegate.focusedAppInstanceId = ""
        /\ FocusChangeDispatched(FALSE, "Lifecycle.onBackground")

\* the Active instance loses the focus: value false, then
\* Lifecycle.onBackground with the legacy payload of its cached states
WitnessC30_ActiveInstanceBlurred ==
    /\ delegateCall.op = "OnBlur"
    /\ delegateCall.appInstanceId = "i1"
    /\ "i1" \in DOMAIN delegate.lifecycleStateMap
    /\ delegate.lifecycleStateMap["i1"]
            = LifecycleStateInfo("PAUSED", "ACTIVE")
    /\ Len(delegateCall.dispatched) = 2
    /\ delegateCall.dispatched[1].payload = FocusPayload(FALSE)
    /\ delegateCall.dispatched[2]
            = Dispatch("Lifecycle.onBackground",
                       <<"{ \"previous\": \"", "inactive",
                         "\", \"state\": \"", "foreground", "\" }">>,
                       "app1")


\* the Discovery.onNavigateTo calls of the last delegate call, in order
NavigateToDispatched ==
    SelectSeq(delegateCall.dispatched,
              LAMBDA call : call.event = "Discovery.onNavigateTo")

\* the navigation intent stored for the instance of the last delegate call
StoredIntent ==
    IF delegateCall.appInstanceId \in DOMAIN delegate.navigationIntentMap
    THEN delegate.navigationIntentMap[delegateCall.appInstanceId]
    ELSE ""

\* C31: on every transition of an app instance into Active the delegate
\* dispatches Discovery.onNavigateTo to that instance's app, carrying the
\* navigation intent most recently stored for that same instance, if one is
\* stored; transitions into any other state dispatch no
\* Discovery.onNavigateTo.
ClaimC31_IntentOnEveryActivation ==
    NotificationHandled =>
        IF delegateCall.newLifecycleState = "ACTIVE" /\ StoredIntent # ""
        THEN NavigateToDispatched
                = <<Dispatch("Discovery.onNavigateTo", <<StoredIntent>>,
                             AppIdOf(delegateCall.appInstanceId))>>
        ELSE NavigateToDispatched = <<>>

\* What holds: the same for the instances the app-id map holds, those whose
\* transition into Initializing the delegate has seen; the activation of any
\* other instance dispatches no Discovery.onNavigateTo.
IntentOnActivationOfRegistered ==
    NotificationHandled =>
        IF /\ delegateCall.newLifecycleState = "ACTIVE"
           /\ StoredIntent # ""
           /\ \E appId \in DOMAIN delegate.appIdInstanceIdMap :
                delegate.appIdInstanceIdMap[appId] = delegateCall.appInstanceId
        THEN NavigateToDispatched
                = <<Dispatch("Discovery.onNavigateTo", <<StoredIntent>>,
                             AppIdOf(delegateCall.appInstanceId))>>
        ELSE NavigateToDispatched = <<>>

\* an instance whose launch the delegate has not seen becomes Active with an
\* intent stored for it: no Discovery.onNavigateTo is dispatched
ActivatedWithoutIntentDispatch ==
    /\ NotificationHandled
    /\ delegateCall.newLifecycleState = "ACTIVE"
    /\ delegateCall.oldLifecycleState = "PAUSED"
    /\ StoredIntent # ""
    /\ delegate.appIdInstanceIdMap = EmptyMap
    /\ NavigateToDispatched = <<>>


(***************************************************************************)
(* Properties of the user-settings and text-track delegates                *)
(***************************************************************************)

\* C32: a delegate registers its notification sink with the downstream
\* producer when the first subscription is added and unregisters it when the
\* last subscription is removed: after any sequence of subscribe and
\* unsubscribe calls the sink is registered exactly when at least one
\* subscription exists.
ClaimC32_RegisteredWhileSubscribed ==
    NoSubscriber =>
        /\ userSettings.registered <=> userSettings.notifications # {}
        /\ textTrack.registered <=> textTrack.notifications # {}

\* What holds: the sink is registered from the first subscription on, by one
\* Register call, and stays registered; the text-track delegate adds the
\* emitter before it registers, so for it this holds between calls.
RegisteredFromFirstSubscription ==
    /\ userSettings.notifications # {} => userSettings.registered
    /\ NoSubscriber /\ textTrack.notifications # {} => textTrack.registered
    /\ userSettings.registered <=> userSettings.registers = 1
    /\ NoSubscriber => (textTrack.registered <=> textTrack.registers = 1)
    /\ userSettings.registers <= 1 /\ textTrack.registers <= 1

\* the last subscription of the text-track delegate has been removed and its
\* sink is still registered
RegisteredWithoutSubscription ==
    /\ subscribeCall.delegate = "TextTrack"
    /\ subscribeCall.handled
    /\ ~subscribeCall.request.listen
    /\ textTrack.notifications = {}
    /\ textTrack.registered
    /\ textTrack.registers = 1


\* the last call was a subscribe (listen = true) of a recognised event
SubscribeHandled ==
    /\ subscribeCall.delegate # "none"
    /\ subscribeCall.handled
    /\ subscribeCall.request.listen

\* C33: for a recognised event and listen = true, HandleEvent sets
\* registrationError to true exactly when the subscription could not be
\* established (producer unavailable, emitter not added) and to false exactly
\* when the emitter was added to the subscription table, on a first and on a
\* repeated subscribe.
ClaimC33_ErrorIffNotSubscribed ==
    SubscribeHandled => (subscribeCall.registrationError <=> ~subscribeCall.added)

\* What holds: the user-settings delegate sets registrationError to true
\* exactly when it added the emitter; the text-track delegate sets it to true
\* only on a subscribe that added the emitter, the one that registered the
\* sink; both leave it false when the producer is not available.
ErrorOnlyWhenSubscribed ==
    SubscribeHandled =>
        /\ subscribeCall.delegate = "UserSettings"
                => (subscribeCall.registrationError <=> subscribeCall.added)
        /\ subscribeCall.delegate = "TextTrack"
                => (subscribeCall.registrationError => subscribeCall.added)

\* a repeated subscribe to the user-settings delegate succeeds, the emitter is
\* in the table, and registrationError is true
ErrorOnSuccessfulSubscribe ==
    /\ SubscribeHandled
    /\ subscribeCall.delegate = "UserSettings"
    /\ userSettings.registers = 1
    /\ <<subscribeCall.request.event, subscribeCall.request.cb>>
            \in userSettings.notifications
    /\ Cardinality(userSettings.notifications) = 2
    /\ subscribeCall.registrationError

(***************************************************************************)
(* Properties of a flush running beside the health counters                *)
(***************************************************************************)

Accounted(counter) ==
    ledger.reported[counter] + telemetry.mHealthStats[counter]

\* C34: under any interleaving of IncrementTotalCalls, IncrementSuccessfulCalls
\* and IncrementFailedCalls with FlushTelemetryData, for each counter the sum
\* of the values the health payloads sent so far report plus the counter's
\* current value is the number of increments performed, outside the window
\* between the flush's send and its reset as well
ClaimC34_EveryIncrementReportedOnce ==
    flushing.pc = "idle" =>
        \A counter \in HealthCounters :
            Accounted(counter) = ledger.performed[counter]

\* what the code keeps: no increment is reported twice
NoIncrementReportedTwice ==
    flushing.pc = "idle" =>
        \A counter \in HealthCounters :
            Accounted(counter) <= ledger.performed[counter]

\* a flush has sent a health payload, and an increment of totalCalls made
\* between its send and its reset is in no payload and not in the counter
IncrementLostInFlush ==
    /\ flushing.pc = "idle"
    /\ ledger.reported["totalCalls"] > 0
    /\ telemetry.mHealthStats.totalCalls = 0
    /\ ledger.performed["totalCalls"] > ledger.reported["totalCalls"]

(***************************************************************************)
(* Properties of Deinitialize beside calls that are under way              *)
(***************************************************************************)

\* Deinitialize has returned and Initialize has not been called since
Deinitialized == lifecycle = "Deinitialized" /\ ~telemetry.mInitialized

\* C35: after Deinitialize has returned, no call sends anything to the
\* telemetry sink and none schedules the timer, a timer expiry and a record
\* call that were under way when Deinitialize started included
ClaimC35_SilentAfterDeinitialize ==
    Deinitialized /\ telEvent.op # "Deinitialize" =>
        telEvent.sent = EmptyBag /\ telEvent.schedules = 0

\* what the code keeps: after Deinitialize the timer is not scheduled again
\* and no entry of it is pending once the expiry under way has finished
NoScheduleAfterDeinitialize ==
    Deinitialized =>
        /\ telEvent.op # "Deinitialize" => telEvent.schedules = 0
        /\ ~telemetry.mTimerRunning
        /\ telemetry.mTimerHandler = 0

\* a record call that passed its mInitialized test before Deinitialize has
\* sent an event after it
SentAfterDeinitialize ==
    /\ Deinitialized
    /\ telEvent.op = "RecordTelemetryEvent"
    /\ telEvent.sent # EmptyBag

\* the timer expiry under way has flushed after Deinitialize and sent the
\* health payload
ExpiryFlushedAfterDeinitialize ==
    /\ Deinitialized
    /\ telEvent.op = "OnTimerExpired"
    /\ telEvent.sent # EmptyBag
    /\ telEvent.schedules = 0

(***************************************************************************)
(* Properties of the API-method buckets and the pairs they stand for       *)
(***************************************************************************)

\* the samples of a bag recorded for the plugin and the method a payload names
SamplesNamedBy(samples, payload) ==
    {s \in BagToSet(samples) :
        s.pluginName = payload.plugin_name /\ s.methodName = payload.method_name}

MethodStatPayloads(sent) ==
    {e.payload : e \in {s \in BagToSet(sent) :
                            s.marker = AGW_MARKER_API_METHOD_STAT}}

\* C36: every method-stat payload a flush sends counts only samples whose
\* plugin and method are the ones its plugin_name and method_name fields
\* name; samples of two different (pluginName, methodName) pairs are never
\* in one bucket
ClaimC36_BucketPerPair ==
    telEvent.flushes > 0
        => \A payload \in MethodStatPayloads(telEvent.sent) :
             payload.total_count =
                 CountOf(telEvent.samples,
                         SamplesNamedBy(telEvent.samples, payload))

\* what the code keeps: a payload counts the samples whose plugin name, "_"
\* and method name make the same text as the names of the payload do
BucketPerKeyText ==
    telEvent.flushes > 0
        => \A payload \in MethodStatPayloads(telEvent.sent) :
             payload.total_count =
                 CountOf(telEvent.samples,
                         {s \in BagToSet(telEvent.samples) :
                             ApiKeyOf(s) = payload.plugin_name \o Underscore
                                               \o payload.method_name})

\* a flush after one sample for ("a", "b_c") and one for ("a_b", "c"): one
\* payload, named after one pair, counts both
TwoPairsInOnePayload ==
    /\ telEvent.flushes > 0
    /\ \E s1, s2 \in BagToSet(telEvent.samples) :
          /\ s1.pluginName = PluginA /\ s1.methodName = MethodBC
          /\ s2.pluginName = PluginAB /\ s2.methodName = MethodC
    /\ \E payload \in MethodStatPayloads(telEvent.sent) :
          /\ payload.total_count = 2
          /\ Cardinality(MethodStatPayloads(telEvent.sent)) = 1

(***************************************************************************)
(* Properties of concurrent subscribe calls                                *)
(***************************************************************************)

\* C37: under any interleaving of concurrent subscribe calls, the
\* user-settings delegate and the text-track delegate each call Register on
\* the producer at most once for each of their notification sinks
ClaimC37_RegisterAtMostOnce ==
    /\ userSettings.registers <= 1
    /\ userSettings.textTrackRegisters <= 1
    /\ textTrack.registers <= 1

\* what the code keeps: the user-settings delegate, which tests and sets its
\* flags inside mRegistrationMutex, registers each of its sinks at most once
UserSettingsRegisterAtMostOnce ==
    /\ userSettings.registers <= 1
    /\ userSettings.textTrackRegisters <= 1

\* two subscribe calls have been through the user-settings delegate and its
\* two sinks are registered once each
UserSettingsSubscribedTwice ==
    /\ userSettings.registers = 1
    /\ userSettings.textTrackRegisters = 1
    /\ userSettings.notifications # {}
    /\ \A thread \in Subscribers : subscribing[thread].pc = "idle"

\* two subscribe calls of the text-track delegate both read GetRegistered()
\* as false and both called Register
TextTrackRegisteredTwice == textTrack.registers = 2

\* a thread whose query failed has assigned null over the interface another
\* thread acquired: the sink is registered and the delegate holds no interface
TextTrackInterfaceLost == ~textTrack.mTextTrack /\ textTrack.registered

\* a thread has called Register through the null mTextTrack
TextTrackCrashed == Crashed /\ ~textTrack.mTextTrack

(***************************************************************************)
(* Properties of the focused-app registry                                  *)
(***************************************************************************)

\* the step is one of the notification named
WindowManagerIn(op) == notifying'["WindowManager"].op = op

\* the step changes the focused instance
FocusChanges ==
    delegate'.focusedAppInstanceId # delegate.focusedAppInstanceId

\* C38: a blur notification for an instance that is not the focused one
\* leaves the focused-app registry unchanged: the focused instance is cleared
\* only by a blur of that same instance and replaced only by a focus of
\* another instance
ClaimC38_BlurOfAnotherKeepsFocus ==
    [][FocusChanges =>
          \/ /\ WindowManagerIn("OnFocus")
             /\ delegate'.focusedAppInstanceId
                    = notifying'["WindowManager"].appInstanceId
          \/ /\ WindowManagerIn("OnBlur")
             /\ notifying'["WindowManager"].appInstanceId
                    = delegate.focusedAppInstanceId
             /\ delegate'.focusedAppInstanceId = ""]_vars

\* what the code keeps: the focused instance changes only in OnFocus, to the
\* instance of the notification, and in OnBlur, to none, whichever instance
\* the blur is for
FocusChangedByFocusOrAnyBlur ==
    [][FocusChanges =>
          \/ /\ WindowManagerIn("OnFocus")
             /\ delegate'.focusedAppInstanceId
                    = notifying'["WindowManager"].appInstanceId
          \/ /\ WindowManagerIn("OnBlur")
             /\ delegate'.focusedAppInstanceId = ""]_vars

(***************************************************************************)
(* Properties of Authenticate                                              *)
(***************************************************************************)

Authenticates(appInstanceId) ==
    Authenticate(delegate, appInstanceId).hresult = ERROR_NONE

\* the state last reported for an instance
LastReported(appInstanceId) ==
    IF appInstanceId \in DOMAIN delegate.lifecycleStateMap
    THEN delegate.lifecycleStateMap[appInstanceId].currentState
    ELSE ""

\* an Initializing transition of the instance was reported and no instance of
\* its app was reported Initializing after it
LatestOfItsApp(appInstanceId) ==
    /\ appInstanceId \in launched.instances
    /\ launched.latest[AppIdOf(appInstanceId)] = appInstanceId

\* C39: an instance id authenticates, with its app id, only while it is the
\* live registered instance of its app: not before an Initializing
\* transition of it was reported, not after a newer instance of its app was
\* registered, and not after it was reported Unloaded or Terminating
ClaimC39_AuthenticatesOnlyWhileLive ==
    \A appInstanceId \in RelaunchedInstances :
        Authenticates(appInstanceId) =>
            /\ Authenticate(delegate, appInstanceId).appId
                   = AppIdOf(appInstanceId)
            /\ LatestOfItsApp(appInstanceId)
            /\ LastReported(appInstanceId) \notin {"UNLOADED", "TERMINATING"}

\* what the code keeps: an instance authenticates, with its app id, exactly
\* when it is the latest instance of its app reported Initializing, whatever
\* was reported of it since
AuthenticatesWhileLatest ==
    \A appInstanceId \in RelaunchedInstances :
        /\ Authenticates(appInstanceId) <=> LatestOfItsApp(appInstanceId)
        /\ Authenticates(appInstanceId) =>
              Authenticate(delegate, appInstanceId).appId
                  = AppIdOf(appInstanceId)

\* the first instance was replaced by a second one of the same app and no
\* longer authenticates, and the second one, reported Unloaded, still does
ReplacedAndUnloaded ==
    /\ launched.instances = {"i1", "i3"}
    /\ ~Authenticates("i1")
    /\ Authenticates("i3")
    /\ LastReported("i3") = "UNLOADED"

(***************************************************************************)
(* Properties of the voice-guidance speed                                  *)
(***************************************************************************)

\* GetSpeed has returned the producer's rate as a speed
SpeedRead == voiceGuidance.op = "GetSpeed" /\ voiceGuidance.hresult = ERROR_NONE

\* Claim C40: for each Firebolt speed s of 0.5, 1, 1.33, 1.67 and 2, a
\* GetSpeed after SetSpeed(s) returns s: the speed-to-rate mapping of SetSpeed
\* followed by the rate-to-speed mapping of GetSpeed is the identity on these
\* values.
TheoremC40_SpeedRoundTrip ==
    /\ SpeedRead /\ voiceGuidance.written \in FireboltSpeeds
          => voiceGuidance.speed = voiceGuidance.written
    /\ \A speed \in FireboltSpeeds :
          vg_speed_thunder2firebolt(vg_speed_firebolt2thunder(speed)) = speed

\* 1.67 was written, the producer holds the rate 1.38, and 1.67 is read back
WitnessC40_OneSixtySevenReadBack ==
    /\ SpeedRead
    /\ voiceGuidance.written = 167
    /\ voiceGuidance.rate = 138
    /\ voiceGuidance.speed = 167

\* a speed that is not a Firebolt speed is read back as another one:
\* 1.5 is written as the rate 1.19 and read back as 1.33
OtherSpeedNotReadBack ==
    /\ SpeedRead
    /\ voiceGuidance.written = 150
    /\ voiceGuidance.rate = 119
    /\ voiceGuidance.speed = 133

=============================================================================
